---- MODULE Spec2Model ----
(***************************************************************************)
(* A model of the normalisation and derivation pipeline of the            *)
(* sustainability-insights collector and processor:                       *)
(*   - the POWEFF record builder (normalisers/model.py),                  *)
(*   - Iosxe_Cli_Normaliser.normalise (normalisers/iosxe_cli_normaliser), *)
(*   - the ASR1k voltage x current pairing (asr1k_cli_normaliser.py),     *)
(*   - the Cat9300 direct power accumulation (cat9300_cli_normaliser.py), *)
(*   - the derived metrics of the processor (processor/*.py).             *)
(* Python list index 0 is TLA+ sequence index 1 throughout.               *)
(***************************************************************************)
EXTENDS Integers, Sequences, FiniteSets, TLC

VARIABLES
    assets,             \* PoweffModel._assets of the record under construction
    addedInterfaces,    \* interfaces accepted by add_interface, in call order
    addedSensors,       \* sensors accepted by add_sensor, in call order
    outcome,            \* what the last PoweffModel call did
    models,             \* Normaliser._models
    ret,                \* what the last normalise() call returned
    args,               \* the parse outcomes the last normalise() call saw
    family,             \* the device family, which selects the strategy
    pc,                 \* position in the family's power parsing
    row_index,          \* rows of the tokenized list consumed so far
    sensor_reading,     \* the local of that name in _parse_power_cat9k
    vout_dict, vin_dict,        \* slot location -> reading
    iout_dict, iin_dict,        \* the same, in insertion order (a Python dict)
    sensor_data,        \* the sensor list being built
    chassis_total_power_out,
    chassis_total_power_in,
    out_log, in_log,    \* the (location, V, I) triples each loop multiplied
    inexact,            \* whether a float operation of this call rounded
    given,              \* the four pairing maps as handed to the pairing
    iterated,           \* the rows of show_environment iterated so far
    ppc,                \* position of the processor in the poll it handles
    scanned,            \* the sensors of the record iterated so far
    psus,               \* process_sensors: location -> {name: reading}
    vitals,             \* process_sensors: cpu, memory and temperature
    powers,             \* the PSU metric rows process_sensors returned
    metrics,            \* the chassis metrics record of the poll
    db,                 \* the rows inserted into the metrics tables
    task,               \* what main read for the poll besides the sensors
    metrics_again,      \* the metrics record of a second derivation
    proc_outcome,       \* how the handling of the poll ended
    co2_intensity_cache,    \* energymap_proxy: (lat, long) -> (timestamp, value)
    now,                \* time.time(), in seconds
    api_key,            \* whether ENERGYMAP_KEY is set
    cpc,                \* caller -> position in get_co2_intensity
    ckey,               \* caller -> the (lat, long) of its call
    response,           \* caller -> what requests.get gave it
    cret,               \* caller -> what its last call returned, and how
    calls,              \* get_co2_intensity calls started so far
    requests,           \* the external lookups issued: key and time
    lpc,                \* position of ssh_collector.main in its loop
    ltask,              \* the collection task being handled
    batch_size,         \* BATCH_SIZE of the environment
    poweff_index,       \* index of the batch to publish next
    consumed,           \* tasks consumed so far
    published,          \* the batches handed to messaging.produce
    abandoned,          \* the tasks skipped with 'continue', by number
    lexc,               \* the exception that left main, if any
    connection,         \* the SSH_Connection of the task in hand
    fpc,                \* position in the textfsm parser under way
    tokenized,          \* the rows _tokenize_fsm gave the parser
    rows_done,          \* rows of tokenized iterated so far
    data_built,         \* the list the parser is building
    sensor_temperature, \* the local of that name in _parse_temperature_textfsm
    fret,               \* what the parser returned or raised
    tokenized_snmp_interface    \* the rows of 'show snmp mib ifmib ifindex'

bvars == <<assets, addedInterfaces, addedSensors, outcome>>
nvars == <<models, ret, args>>
pvars == <<family, pc, row_index, sensor_reading, vout_dict, vin_dict, iout_dict, iin_dict, sensor_data,
           chassis_total_power_out, chassis_total_power_in,
           out_log, in_log, inexact, given, iterated>>
cvars == <<ppc, scanned, psus, vitals, powers, metrics, db, task, metrics_again,
           proc_outcome>>
kvars == <<co2_intensity_cache, now, api_key, cpc, ckey, response, cret, calls, requests>>
lvars == <<lpc, ltask, batch_size, poweff_index, consumed, published, abandoned, lexc,
           connection>>
fvars == <<fpc, tokenized, rows_done, data_built, sensor_temperature, fret,
           tokenized_snmp_interface>>
vars == <<bvars, nvars, pvars, cvars, kvars, lvars, fvars>>

\* What the actions of one component leave alone.
notBuilder == <<nvars, pvars, cvars, kvars, lvars, fvars>>
notNormalise == <<bvars, pvars, cvars, kvars, lvars, fvars>>
notPower == <<bvars, nvars, cvars, kvars, lvars, fvars>>
notProcessor == <<bvars, nvars, pvars, kvars, lvars, fvars>>
notCache == <<bvars, nvars, pvars, cvars, lvars, fvars>>
notCollector == <<bvars, nvars, pvars, cvars, kvars, fvars>>
notParser == <<bvars, nvars, pvars, cvars, kvars, lvars>>

(***************************************************************************)
(* Bounds and input domains.                                               *)
(***************************************************************************)
MaxAssets == 3
MaxItems == 2
MaxModels == 2
MaxSensors == 3

Pids == {"ASR1001-X", "ASR1000-PWR-AC"}
IfNames == {"GigabitEthernet0/0/0", "GigabitEthernet0/0/1"}

\* Python results: a returned value or a raised exception.
Return(v) == [kind |-> "return", value |-> v]
Raise(e) == [kind |-> "raise", exc |-> e]

(***************************************************************************)
(* normalisers/model.py                                                    *)
(***************************************************************************)
Asset(pid) == [pid |-> pid, interfaces |-> <<>>, sensors |-> <<>>]

Interface(ifname) == [name |-> ifname]

Sensor(location, name, state, reading, units) ==
    [location |-> location, name |-> name, state |-> state,
     reading |-> reading, units |-> units]

SensorObjects ==
    { Sensor("Chassis", "Pin", "NA", 100, "W"),
      Sensor("Chassis", "CPU-5Min", "NA", 7, "Percentage") }

Asset_add_interface(asset, interface) ==
    [asset EXCEPT !.interfaces = Append(@, interface)]

Asset_add_sensor(asset, sensor) ==
    [asset EXCEPT !.sensors = Append(@, sensor)]

Interface_serialise(interface) == [name |-> interface.name]

Sensor_serialise(sensor) ==
    [ sensor_location |-> sensor.location,
      sensor_current_reading |-> sensor.reading,
      sensor_units |-> sensor.units,
      sensor_state |-> sensor.state,
      sensor_name |-> sensor.name ]

IfKey == "ietf-susi-power-traffic:interfaces"
SensKey == "ietf-susi-power-environment:sensors"

Asset_serialise_always(asset) ==
    [id |-> asset.pid]
    @@ (IfKey :> [interface |-> [i \in 1..Len(asset.interfaces) |->
                                    Interface_serialise(asset.interfaces[i])]])
    @@ (SensKey :> [sensors |-> [i \in 1..Len(asset.sensors) |->
                                    Sensor_serialise(asset.sensors[i])]])

\* The nested key is set only when the list is not empty.
Asset_serialise(asset) ==
    LET interfaces == [i \in 1..Len(asset.interfaces) |->
                          Interface_serialise(asset.interfaces[i])]
        sensors == [i \in 1..Len(asset.sensors) |->
                          Sensor_serialise(asset.sensors[i])]
        base == [id |-> asset.pid]
        withIfs == IF Len(interfaces) > 0
                   THEN base @@ (IfKey :> [interface |-> interfaces])
                   ELSE base
    IN  IF Len(sensors) > 0
        THEN withIfs @@ (SensKey :> [sensors |-> sensors])
        ELSE withIfs

PoweffModel_add_asset(m, asset) == Return(Append(m, asset))

\* self._assets[0] raises IndexError on an empty list.
PoweffModel_add_interface_noop(m, interface) ==
    IF Len(m) = 0 THEN Return(m)
    ELSE Return([m EXCEPT ![1] = Asset_add_interface(@, interface)])

PoweffModel_add_interface(m, interface) ==
    IF Len(m) = 0 THEN Raise("IndexError")
    ELSE Return([m EXCEPT ![1] = Asset_add_interface(@, interface)])

PoweffModel_add_sensor_last(m, sensor) ==
    IF Len(m) = 0 THEN Raise("IndexError")
    ELSE Return([m EXCEPT ![Len(m)] = Asset_add_sensor(@, sensor)])

PoweffModel_add_sensor(m, sensor) ==
    IF Len(m) = 0 THEN Raise("IndexError")
    ELSE Return([m EXCEPT ![1] = Asset_add_sensor(@, sensor)])

\* The two probes of inst[0]: a missing asset or a missing key both raise
\* inside the bare try/except, interfaces first.
PoweffModel_serialise_sensors_first(m) ==
    LET inst == [i \in 1..Len(m) |-> Asset_serialise(m[i])]
    IN  IF Len(inst) = 0 \/ SensKey \notin DOMAIN inst[1]
        THEN Raise("No Sensors Found")
        ELSE IF IfKey \notin DOMAIN inst[1]
        THEN Raise("No Interfaces Found")
        ELSE Return([inst |-> inst])

PoweffModel_serialise(m) ==
    LET inst == [i \in 1..Len(m) |-> Asset_serialise(m[i])]
    IN  IF Len(inst) = 0 \/ IfKey \notin DOMAIN inst[1]
        THEN Raise("No Interfaces Found")
        ELSE IF SensKey \notin DOMAIN inst[1]
        THEN Raise("No Sensors Found")
        ELSE Return([inst |-> inst])

(***************************************************************************)
(* The builder as a state machine: any sequence of calls on one model.     *)
(***************************************************************************)
Call(op, arg, result) == [op |-> op, arg |-> arg, result |-> result]

BuilderInit ==
    /\ assets = <<>>
    /\ addedInterfaces = <<>>
    /\ addedSensors = <<>>
    /\ outcome = Call("init", "", Return(<<>>))

AddAsset ==
    \E pid \in Pids :
        /\ Len(assets) < MaxAssets
        /\ LET r == PoweffModel_add_asset(assets, Asset(pid))
           IN  /\ assets' = r.value
               /\ outcome' = Call("add_asset", pid, r)
        /\ UNCHANGED <<addedInterfaces, addedSensors, notBuilder>>

AddInterface ==
    \E ifname \in IfNames :
        /\ Len(addedInterfaces) < MaxItems
        /\ LET r == PoweffModel_add_interface(assets, Interface(ifname))
           IN  /\ outcome' = Call("add_interface", Interface(ifname), r)
               /\ IF r.kind = "return"
                  THEN /\ assets' = r.value
                       /\ addedInterfaces' = Append(addedInterfaces, Interface(ifname))
                  ELSE UNCHANGED <<assets, addedInterfaces>>
        /\ UNCHANGED <<addedSensors, notBuilder>>

AddSensor ==
    \E sensor \in SensorObjects :
        /\ Len(addedSensors) < MaxItems
        /\ LET r == PoweffModel_add_sensor(assets, sensor)
           IN  /\ outcome' = Call("add_sensor", sensor, r)
               /\ IF r.kind = "return"
                  THEN /\ assets' = r.value
                       /\ addedSensors' = Append(addedSensors, sensor)
                  ELSE UNCHANGED <<assets, addedSensors>>
        /\ UNCHANGED <<addedInterfaces, notBuilder>>

Serialise ==
    /\ outcome' = Call("serialise", "", PoweffModel_serialise(assets))
    /\ UNCHANGED <<assets, addedInterfaces, addedSensors, notBuilder>>

BuilderNext == AddAsset \/ AddInterface \/ AddSensor \/ Serialise

(***************************************************************************)
(* normalisers/iosxe_cli_normaliser.py: normalise()                        *)
(***************************************************************************)
None == [kind |-> "None"]
ReturnNone == [kind |-> "return_none"]

\* What the tokenizer and the family's parsers can hand to normalise():
\* inventory rows, and a list or an exception from _parse_interfaces and
\* _parse_sensors (the base class's _parse_sensors returns None).
InventoryRows ==
    { <<>>, <<"ASR1001-X">>, <<"ASR1001-X", "ASR1000-PWR-AC">> }
InterfaceOutcomes ==
    { Raise("KeyError"), Return(<<>>),
      Return(<<"GigabitEthernet0/0/0", "GigabitEthernet0/0/1">>) }
SensorOutcomes ==
    { Raise("KeyError"), ReturnNone, Return(<<>>),
      Return(<<Sensor("Chassis", "Pin", "NA", 100, "W")>>),
      Return(<<Sensor("Chassis", "Pin", "NA", 100, "W"),
               Sensor("Chassis", "CPU-5Min", "NA", 7, "Percentage")>>) }

\* asset_data[0]['slot'] = 'Chassis' raises IndexError on no rows.
parse_inventory_textfsm(show_inventory) ==
    IF Len(show_inventory) = 0 THEN Raise("IndexError")
    ELSE Return([i \in 1..Len(show_inventory) |->
                    [pid |-> show_inventory[i],
                     slot |-> IF i = 1 THEN "Chassis" ELSE "None"]])

\* _parse_assets as if the except branch filled in a placeholder row.
parse_assets_placeholder(show_inventory) ==
    LET r == parse_inventory_textfsm(show_inventory)
    IN  IF r.kind = "raise" THEN <<[pid |-> "NA", slot |-> "Chassis"]>> ELSE r.value

parse_assets(show_inventory) ==
    LET r == parse_inventory_textfsm(show_inventory)
    IN  IF r.kind = "raise" THEN <<>> ELSE r.value

RECURSIVE add_assets(_, _)
add_assets(m, asset_data) ==
    IF asset_data = <<>> THEN m
    ELSE add_assets(PoweffModel_add_asset(m, Asset(Head(asset_data).pid)).value,
                    Tail(asset_data))

\* The attach loops run only after >= 1 asset was added, so they cannot raise.
RECURSIVE add_interfaces(_, _)
add_interfaces(m, interface_data) ==
    IF interface_data = <<>> THEN m
    ELSE add_interfaces(
            PoweffModel_add_interface(m, Interface(Head(interface_data))).value,
            Tail(interface_data))

RECURSIVE add_sensors(_, _)
add_sensors(m, sensor_list) ==
    IF sensor_list = <<>> THEN m
    ELSE add_sensors(PoweffModel_add_sensor(m, Head(sensor_list)).value,
                     Tail(sensor_list))

\* normalise(): [ret, models] from the normaliser's _models and the inputs,
\* with the parsers it called (ran) and the local asset_data.
normalise(self_models, site_found, show_inventory, interfaces, sensors) ==
    LET asset_data == parse_assets(show_inventory)
        failed(ran) == [ret |-> None, models |-> self_models, ran |-> ran,
                        asset_data |-> IF Len(ran) = 0 THEN <<>> ELSE asset_data]
        all == <<"_parse_assets", "_parse_interfaces", "_parse_sensors">>
    IN  IF ~site_found THEN failed(<<>>)
        ELSE IF Len(asset_data) = 0 THEN failed(SubSeq(all, 1, 1))
        ELSE IF interfaces.kind = "raise" \/ Len(interfaces.value) = 0
             THEN failed(SubSeq(all, 1, 2))
        ELSE IF sensors.kind \in {"raise", "return_none"} THEN failed(all)
        ELSE LET current_device ==
                    add_sensors(add_interfaces(add_assets(<<>>, asset_data),
                                               interfaces.value),
                                sensors.value)
                 poweff_current == PoweffModel_serialise(current_device)
             IN  IF poweff_current.kind = "raise" THEN failed(all)
                 ELSE LET appended == Append(self_models, poweff_current.value)
                      IN  [ret |-> [kind |-> "models", value |-> appended],
                           models |-> appended, ran |-> all,
                           asset_data |-> asset_data]

NormaliseInit ==
    /\ models = <<>>
    /\ ret = None
    /\ args = [op |-> "new"]

\* normaliser_factory.get_normaliser: a new normaliser with no models.
GetNormaliser ==
    /\ models' = <<>>
    /\ ret' = None
    /\ args' = [op |-> "new"]
    /\ UNCHANGED notNormalise

Normalise ==
    \E site_found \in BOOLEAN, show_inventory \in InventoryRows,
       interfaces \in InterfaceOutcomes, sensors \in SensorOutcomes :
        /\ Len(models) < MaxModels
        /\ LET r == normalise(models, site_found, show_inventory,
                              interfaces, sensors)
           IN  /\ models' = r.models
               /\ ret' = r.ret
        /\ args' = [op |-> "normalise", site |-> site_found,
                    inventory |-> show_inventory,
                    interfaces |-> interfaces, sensors |-> sensors,
                    ran |-> normalise(models, site_found, show_inventory,
                                      interfaces, sensors).ran,
                    asset_data |-> normalise(models, site_found, show_inventory,
                                             interfaces, sensors).asset_data]
        /\ UNCHANGED notNormalise

NormaliseNext == GetNormaliser \/ Normalise

(***************************************************************************)
(* Floating point.  A Python float is modelled as an integer count of      *)
(* quarters (1.0 is Units(1)), kept to Precision significant bits: every   *)
(* product and sum is rounded to nearest, ties to even, as IEEE 754 does   *)
(* with 53 bits.  Readings are given in halves so that a product of two    *)
(* readings is a whole number of quarters before rounding.                 *)
(***************************************************************************)
Precision == 2

Units(n) == 4 * n

Abs(x) == IF x < 0 THEN -x ELSE x

RECURSIVE BitLen(_)
BitLen(n) == IF n = 0 THEN 0 ELSE 1 + BitLen(n \div 2)

RECURSIVE Pow2(_)
Pow2(k) == IF k = 0 THEN 1 ELSE 2 * Pow2(k - 1)

fl(x) ==
    LET a == Abs(x)
        b == BitLen(a)
    IN  IF b <= Precision THEN x
        ELSE LET u == Pow2(b - Precision)
                 q == a \div u
                 r == a % u
                 up == (2 * r > u) \/ (2 * r = u /\ q % 2 = 1)
                 m == IF up THEN (q + 1) * u ELSE q * u
             IN  IF x < 0 THEN -m ELSE m

\* v * i for two readings in halves, in quarters.
float_mul(v, i) == fl(v * i)

float_add(x, y) == fl(x + y)

\* int(x): truncation toward zero.
int_floor(x) == x \div Units(1)

int(x) == IF x >= 0 THEN x \div Units(1) ELSE -((-x) \div Units(1))

(***************************************************************************)
(* A Python dict in insertion order: a sequence of [k, v] with unique k.   *)
(***************************************************************************)
dict_keys(d) == [n \in 1..Len(d) |-> d[n].k]

dict_has(d, key) == \E n \in 1..Len(d) : d[n].k = key

dict_get(d, key, default) ==
    IF dict_has(d, key)
    THEN d[CHOOSE n \in 1..Len(d) : d[n].k = key].v
    ELSE default

\* d[key] = value: a present key keeps its position.
dict_set(d, key, value) ==
    IF dict_has(d, key)
    THEN [n \in 1..Len(d) |-> IF d[n].k = key THEN [k |-> key, v |-> value]
                              ELSE d[n]]
    ELSE Append(d, [k |-> key, v |-> value])

dict_without_get(d, key) == d

\* d.pop(key, default) as if it emptied d.
dict_without_all(d, key) == <<>>

\* What d.pop(key, default) leaves in d.
dict_without(d, key) == SelectSeq(d, LAMBDA e : e.k # key)

\* vout_dict and vin_dict are only looked up by key (their iteration order
\* reaches nothing but a log line): functions from location to reading.
map_set(m, key, value) ==
    [x \in DOMAIN m \cup {key} |-> IF x = key THEN value ELSE m[x]]

\* What m.pop(key, default) returns, and what it leaves in m.
map_pop_value(m, key, default) == IF key \in DOMAIN m THEN m[key] ELSE default

map_without_get(m, key) == m

map_without(m, key) == [x \in DOMAIN m \ {key} |-> m[x]]

EmptyMap == [x \in {} |-> 0]

(***************************************************************************)
(* normalisers/asr1k_cli_normaliser.py                                     *)
(***************************************************************************)
MaxEntries == 6

Locations == {"P0", "P1", "P2"}
VoltageReadings == {1, 4}
CurrentReadings == {2}

\* The keywords of the elif chain that a sensor label contains.
Labels == { {"vout"}, {"vin"}, {"iout"}, {"iin"}, {"vin", "iout"}, {} }

Numeric(x) == [numeric |-> TRUE, value |-> x]
NonNumeric == [numeric |-> FALSE, value |-> 0]

\* Tokenized 'show environment' rows: SLOT, SENSOR, READING.
Asr1kRows ==
    { [SLOT |-> l, SENSOR |-> s, READING |-> Numeric(r)] :
          l \in Locations, s \in {{"vout"}, {"vin"}}, r \in VoltageReadings }
    \cup { [SLOT |-> l, SENSOR |-> s, READING |-> Numeric(r)] :
          l \in Locations, s \in {{"iout"}, {"iin"}, {"vin", "iout"}},
          r \in CurrentReadings }
    \cup { [SLOT |-> "R0", SENSOR |-> {}, READING |-> Numeric(4)],
           [SLOT |-> "P0", SENSOR |-> {"vout"}, READING |-> NonNumeric] }

sensor_kind(label) ==
    IF "vout" \in label THEN "Vout"
    ELSE IF "vin" \in label THEN "Vin"
    ELSE IF "iout" \in label THEN "Iout"
    ELSE IF "iin" \in label THEN "Iin"
    ELSE "other"

Entries ==
    Cardinality(DOMAIN vout_dict) + Cardinality(DOMAIN vin_dict)
    + Len(iout_dict) + Len(iin_dict) + Len(sensor_data)

Unbound == [bound |-> FALSE, value |-> 0]
Bound(x) == [bound |-> TRUE, value |-> x]

PowerIdle ==
    /\ row_index = 0
    /\ sensor_reading = Unbound
    /\ vout_dict = EmptyMap /\ vin_dict = EmptyMap
    /\ iout_dict = <<>> /\ iin_dict = <<>>
    /\ sensor_data = <<>>
    /\ chassis_total_power_out = 0
    /\ chassis_total_power_in = 0
    /\ out_log = <<>> /\ in_log = <<>>
    /\ inexact = FALSE
    /\ iterated = <<>>
    /\ given = [vout |-> EmptyMap, vin |-> EmptyMap,
                iout |-> EmptyMap, iin |-> EmptyMap]

\* _parse_power_textfsm: one iteration of 'for sensor in tokenized'.
Asr1kParseRow ==
    \E sensor \in Asr1kRows :
        /\ pc = "asr1k_rows"
        /\ Entries < MaxEntries
        /\ LET kind == sensor_kind(sensor.SENSOR)
               reading == sensor.READING.value
               sensor_location == sensor.SLOT
           IN  IF ~sensor.READING.numeric
               THEN UNCHANGED <<vout_dict, vin_dict, iout_dict, iin_dict,
                                sensor_data>>
               ELSE
               /\ vout_dict' = IF kind = "Vout"
                               THEN map_set(vout_dict, sensor_location, reading)
                               ELSE vout_dict
               /\ vin_dict' = IF kind = "Vin"
                              THEN map_set(vin_dict, sensor_location, reading)
                              ELSE vin_dict
               /\ iout_dict' = IF kind = "Iout"
                               THEN dict_set(iout_dict, sensor_location, reading)
                               ELSE iout_dict
               /\ iin_dict' = IF kind = "Iin"
                              THEN dict_set(iin_dict, sensor_location, reading)
                              ELSE iin_dict
               /\ sensor_data' =
                     IF kind = "other"
                     THEN Append(sensor_data,
                                 Sensor(sensor_location, "Temp", "Normal",
                                        reading, "Celsius"))
                     ELSE sensor_data
        /\ UNCHANGED <<family, pc, row_index, sensor_reading,
                       chassis_total_power_out, chassis_total_power_in,
                       out_log, in_log, inexact, given, iterated, notPower>>

AsMap(d) == [x \in {d[n].k : n \in 1..Len(d)} |-> dict_get(d, x, 0)]

\* The rows are exhausted: _generate_chassis_power_from_vi is called.
Asr1kCallGenerate ==
    /\ pc = "asr1k_rows"
    /\ pc' = "iout_loop"
    /\ given' = [vout |-> vout_dict, vin |-> vin_dict,
                 iout |-> AsMap(iout_dict), iin |-> AsMap(iin_dict)]
    /\ UNCHANGED <<family, row_index, sensor_reading,
                   vout_dict, vin_dict, iout_dict, iin_dict, sensor_data,
                   chassis_total_power_out, chassis_total_power_in,
                   out_log, in_log, inexact, iterated, notPower>>

\* One iteration of 'while len(iout_dict) != 0', or its exit.
IoutLoop ==
    /\ pc = "iout_loop"
    /\ IF Len(iout_dict) # 0
       THEN LET sensor_location == dict_keys(iout_dict)[1]
                vout_reading == map_pop_value(vout_dict, sensor_location, 0)
                iout_reading == dict_get(iout_dict, sensor_location, 0)
                product == vout_reading * iout_reading
                sum == chassis_total_power_out + float_mul(vout_reading, iout_reading)
            IN  /\ vout_dict' = map_without(vout_dict, sensor_location)
                /\ iout_dict' = dict_without(iout_dict, sensor_location)
                /\ chassis_total_power_out' =
                      float_add(chassis_total_power_out,
                                float_mul(vout_reading, iout_reading))
                /\ out_log' = Append(out_log, [loc |-> sensor_location,
                                               v |-> vout_reading,
                                               i |-> iout_reading])
                /\ inexact' = (inexact \/ fl(product) # product \/ fl(sum) # sum)
                /\ pc' = pc
       ELSE /\ pc' = "iin_loop"
            /\ UNCHANGED <<vout_dict, iout_dict, chassis_total_power_out,
                           out_log, inexact>>
    /\ UNCHANGED <<family, row_index, sensor_reading,
                   vin_dict, iin_dict, sensor_data, chassis_total_power_in,
                   in_log, given, iterated, notPower>>

\* One iteration of 'while len(iin_dict) != 0', or its exit.
IinLoop ==
    /\ pc = "iin_loop"
    /\ IF Len(iin_dict) # 0
       THEN LET sensor_location == dict_keys(iin_dict)[1]
                vin_reading == map_pop_value(vin_dict, sensor_location, 0)
                iin_reading == dict_get(iin_dict, sensor_location, 0)
                product == vin_reading * iin_reading
                sum == chassis_total_power_in + float_mul(vin_reading, iin_reading)
            IN  /\ vin_dict' = map_without(vin_dict, sensor_location)
                /\ iin_dict' = dict_without(iin_dict, sensor_location)
                /\ chassis_total_power_in' =
                      float_add(chassis_total_power_in,
                                float_mul(vin_reading, iin_reading))
                /\ in_log' = Append(in_log, [loc |-> sensor_location,
                                             v |-> vin_reading,
                                             i |-> iin_reading])
                /\ inexact' = (inexact \/ fl(product) # product \/ fl(sum) # sum)
                /\ pc' = pc
       ELSE /\ pc' = "emit"
            /\ UNCHANGED <<vin_dict, iin_dict, chassis_total_power_in,
                           in_log, inexact>>
    /\ UNCHANGED <<family, row_index, sensor_reading,
                   vout_dict, iout_dict, sensor_data, chassis_total_power_out,
                   out_log, given, iterated, notPower>>

\* The chassis sensors of a pair of totals (both strategies build them alike).
chassis_sensor(name, total) ==
    IF int(total) # 0
    THEN << Sensor("Chassis", name, "NA", total, "W") >>
    ELSE << >>

power_sensors(total_out, total_in) ==
    chassis_sensor("Pout", total_out) \o chassis_sensor("Pin", total_in)

\* The rest of the pairing, and _parse_power_textfsm's extend and return.
Asr1kEmit ==
    /\ pc = "emit"
    /\ sensor_data' = sensor_data
                      \o power_sensors(chassis_total_power_out,
                                       chassis_total_power_in)
    /\ pc' = "done"
    /\ UNCHANGED <<family, row_index, sensor_reading,
                   vout_dict, vin_dict, iout_dict, iin_dict,
                   chassis_total_power_out, chassis_total_power_in,
                   out_log, in_log, inexact, given, iterated, notPower>>

(***************************************************************************)
(* normalisers/cat9300_cli_normaliser.py                                   *)
(***************************************************************************)
MaxRows == 3

\* Tokenized 'show environment all' rows: SENSOR (the keywords its label
\* contains), READING (a float in quarters, or text that is no number)
\* and UNITS.  1000 is the reading "250" of a row in mW.
Cat9kRows ==
    { [SENSOR |-> s, READING |-> Numeric(r), UNITS |-> "W"] :
          s \in {{"powin"}, {"powout"}, {}}, r \in {-1, 1, 4} }
    \cup { [SENSOR |-> s, READING |-> Numeric(1000), UNITS |-> "mW"] :
          s \in {{"powin"}, {"powout"}} }
    \cup { [SENSOR |-> {"powin"}, READING |-> Numeric(140), UNITS |-> "Celsius"] }
    \cup { [SENSOR |-> {"powin"}, READING |-> NonNumeric, UNITS |-> u] :
          u \in {"W", "mW", "Celsius"} }

\* 'mw' in UNITS.lower(), UNITS.lower() in ('w', 'watt', 'watts'), or neither.
units_kind(units) ==
    IF units \in {"mW", "mw", "MW"} THEN "mw"
    ELSE IF units \in {"W", "w", "Watt", "watt", "Watts", "watts"} THEN "w"
    ELSE "other"

\* x / 1000, kept to the quarter.
float_div_1000(x) ==
    IF x >= 0 THEN fl(x \div 1000) ELSE -fl((-x) \div 1000)

\* _parse_power_cat9k: one iteration of 'for sensor in show_environment'.
\* A reading that is no number is logged and the iteration goes on with
\* sensor_reading as the previous iteration left it (unbound in the first).
Cat9kParseRow ==
    \E sensor \in Cat9kRows :
        /\ pc = "cat9k_rows"
        /\ row_index < MaxRows
        /\ row_index' = row_index + 1
        /\ iterated' = Append(iterated, sensor)
        /\ LET parsed == IF sensor.READING.numeric
                         THEN Bound(sensor.READING.value)
                         ELSE sensor_reading
               ukind == units_kind(sensor.UNITS)
               is_in == "powin" \in sensor.SENSOR
               is_out == ~is_in /\ "powout" \in sensor.SENSOR
               scaled == IF ukind = "mw"
                         THEN Bound(float_div_1000(parsed.value))
                         ELSE parsed
           IN  IF ukind = "other"
               THEN /\ sensor_reading' = parsed
                    /\ UNCHANGED <<pc, chassis_total_power_out,
                                   chassis_total_power_in>>
               ELSE IF ~parsed.bound /\ (ukind = "mw" \/ is_in \/ is_out)
               THEN /\ pc' = "raised"
                    /\ UNCHANGED <<sensor_reading, chassis_total_power_out,
                                   chassis_total_power_in>>
               ELSE /\ sensor_reading' = scaled
                    /\ pc' = pc
                    /\ chassis_total_power_in' =
                          IF is_in
                          THEN float_add(chassis_total_power_in, scaled.value)
                          ELSE chassis_total_power_in
                    /\ chassis_total_power_out' =
                          IF is_out
                          THEN float_add(chassis_total_power_out, scaled.value)
                          ELSE chassis_total_power_out
        /\ UNCHANGED <<family, vout_dict, vin_dict, iout_dict, iin_dict,
                       sensor_data, out_log, in_log, inexact, given, notPower>>

cat9k_power_sensors(total_out, total_in) ==
    (IF int(total_out) # 0
     THEN << Sensor("Chassis", "Pout", "NA", total_out, "W") >> ELSE << >>)
    \o (IF int(total_in) # 0
        THEN << Sensor("Chassis", "Pin", "NA", total_in, "W") >> ELSE << >>)

\* The rows are exhausted: the chassis sensors are built and returned.
Cat9kEmit ==
    /\ pc = "cat9k_rows"
    /\ sensor_data' = cat9k_power_sensors(chassis_total_power_out,
                                          chassis_total_power_in)
    /\ pc' = "done"
    /\ UNCHANGED <<family, row_index, sensor_reading,
                   vout_dict, vin_dict, iout_dict, iin_dict,
                   chassis_total_power_out, chassis_total_power_in,
                   out_log, in_log, inexact, given, iterated, notPower>>

(***************************************************************************)
(* processor/poweff_helper.py and processor/processor.py.  The readings of *)
(* the payload and the metrics derived from them are Python floats; here   *)
(* they are whole numbers of 1/550 W, a grid on which 0.88 * x and         *)
(* x / 0.88 are exact for the whole-watt readings of the payloads below.   *)
(* A count such as power_efficiency, which int() returns, is a plain       *)
(* integer.                                                                *)
(***************************************************************************)
Watts(n) == 550 * n

\* The quotient n / d truncated toward zero, for d # 0.
TruncQuot(n, d) ==
    IF (n >= 0) = (d > 0) THEN Abs(n) \div Abs(d) ELSE -(Abs(n) \div Abs(d))

FloorQuot(n, d) == IF d > 0 THEN n \div d ELSE (-n) \div (-d)

\* x * y of two readings.
reading_mul(x, y) == TruncQuot(x * y, Watts(1))

int_div_floor(n, d) ==
    IF d = 0 THEN Raise("ZeroDivisionError") ELSE Return(FloorQuot(n, d))

\* int(n / d) of two quantities of the same unit.
int_div(n, d) ==
    IF d = 0 THEN Raise("ZeroDivisionError") ELSE Return(TruncQuot(n, d))

\* 0.88 * x and x / 0.88.
times_088(x) == TruncQuot(x * 88, 100)
over_088(x) == TruncQuot(x * 100, 88)

PsuLocations == {"PS0", "PS1"}
PowerNames == {"Pin", "Pout", "Vin", "Vout", "Iin", "Iout"}

\* The sensors a record can carry, as Sensor.serialise wrote them.
PayloadSensors ==
    { Sensor_serialise(Sensor("PS0", "Pin", "NA", Watts(w), "W")) : w \in {0, 300} }
    \cup { Sensor_serialise(Sensor("PS0", "Pout", "NA", Watts(w), "W")) :
              w \in {250, -1} }
    \cup { Sensor_serialise(Sensor("PS0", n, "NA", Watts(12), "V")) :
              n \in {"Vin", "Vout"} }
    \cup { Sensor_serialise(Sensor("PS0", "Iin", "NA", Watts(5), "A")),
           Sensor_serialise(Sensor("PS0", "Iout", "NA", Watts(4), "A")),
           Sensor_serialise(Sensor("PS1", "Pin", "NA", Watts(300), "W")),
           Sensor_serialise(Sensor("Chassis", "CPU-5Min", "NA", Watts(7), "Percentage")),
           Sensor_serialise(Sensor("Chassis", "Temp", "Critical", Watts(30), "Celsius")),
           Sensor_serialise(Sensor("Chassis", "Temp", "Normal", Watts(30), "Celsius")),
           Sensor_serialise(Sensor("Chassis", "Temp", "GREEN", Watts(30), "Celsius")),
           Sensor_serialise(Sensor("Chassis", "Temp", "Warning", Watts(86), "Fahrenheit")) }

temperatures_default_normal(state) ==
    CASE state = "Unknown" -> -1
      [] state = "Normal" -> 0
      [] state = "Warning" -> 1
      [] state = "Critical" -> 2
      [] OTHER -> 0

\* temperatures.get(state, -1)
temperatures(state) ==
    CASE state = "Unknown" -> -1
      [] state = "Normal" -> 0
      [] state = "Warning" -> 1
      [] state = "Critical" -> 2
      [] OTHER -> -1

ProcessorIdle ==
    /\ ppc = "idle"
    /\ scanned = <<>>
    /\ psus = <<>>
    /\ vitals = [cpu_usage |-> -1, memory_usage |-> -1, temperature |-> -1]
    /\ powers = <<>>
    /\ metrics = None
    /\ db = [assets |-> <<>>, ifmetrics |-> <<>>,
             psumetrics |-> <<>>, powermetrics |-> <<>>]
    /\ task = None
    /\ metrics_again = None
    /\ proc_outcome = None

\* A poll has been consumed and process_sensors starts on its record.
ProcessorInit ==
    /\ scanned = <<>>
    /\ psus = <<>>
    /\ vitals = [cpu_usage |-> -1, memory_usage |-> -1, temperature |-> -1]
    /\ powers = <<>>
    /\ metrics = None
    /\ db = [assets |-> <<>>, ifmetrics |-> <<>>,
             psumetrics |-> <<>>, powermetrics |-> <<>>]
    /\ task = None
    /\ metrics_again = None
    /\ proc_outcome = None
    /\ ppc = "scan"

\* The body of the loop over the sensors: what one sensor i does to the
\* locals psus and vitals (given as the record l).
sensor_step(l, i) ==
    IF i.sensor_name \in PowerNames
    THEN [l EXCEPT !.psus = dict_set(l.psus, i.sensor_location,
                                map_set(dict_get(l.psus, i.sensor_location, EmptyMap),
                                        i.sensor_name, i.sensor_current_reading))]
    ELSE [l EXCEPT !.vitals =
            IF i.sensor_name = "CPU-5Min"
            THEN [l.vitals EXCEPT !.cpu_usage = i.sensor_current_reading]
            ELSE IF i.sensor_name = "Memory"
            THEN [l.vitals EXCEPT !.memory_usage = i.sensor_current_reading]
            ELSE IF i.sensor_units = "Celsius"
                    /\ l.vitals.temperature < temperatures(i.sensor_state)
            THEN [l.vitals EXCEPT !.temperature = temperatures(i.sensor_state)]
            ELSE l.vitals]

\* One iteration of the loop over the sensors of the record.
ScanSensor ==
    /\ ppc = "scan"
    /\ Len(scanned) < MaxSensors
    /\ \E i \in PayloadSensors :
          LET l == sensor_step([psus |-> psus, vitals |-> vitals], i)
          IN  /\ scanned' = Append(scanned, i)
              /\ psus' = l.psus
              /\ vitals' = l.vitals
    /\ UNCHANGED <<ppc, powers, metrics, db, task, metrics_again, proc_outcome,
                   notProcessor>>

\* v after the two derivations P = V * I.
derive_power(v) ==
    LET v1 == IF "Vin" \in DOMAIN v /\ "Iin" \in DOMAIN v
              THEN map_set(v, "Pin", reading_mul(v["Vin"], v["Iin"])) ELSE v
    IN  IF "Vout" \in DOMAIN v1 /\ "Iout" \in DOMAIN v1
        THEN map_set(v1, "Pout", reading_mul(v1["Vout"], v1["Iout"])) ELSE v1

\* 0 if Pin == 0 else int(Pout * 100 / Pin)
psu_power_efficiency(pin, pout) ==
    IF pin = 0 THEN Return(0) ELSE int_div(pout * 100, pin)

\* The row of one location: a row, a raised error, or None for `continue`.
psu_metric(k, v) ==
    IF "Pin" \in DOMAIN v /\ "Pout" \in DOMAIN v
    THEN LET e == psu_power_efficiency(v["Pin"], v["Pout"])
         IN  IF e.kind = "raise" THEN e
             ELSE Return([psuname |-> k, power_in |-> v["Pin"],
                          power_out |-> v["Pout"], power_efficiency |-> e.value])
    ELSE IF "Pin" \in DOMAIN v
    THEN Return([psuname |-> k, power_in |-> v["Pin"],
                 power_out |-> times_088(v["Pin"]), power_efficiency |-> 88])
    ELSE IF "Pout" \in DOMAIN v
    THEN Return([psuname |-> k, power_in |-> over_088(v["Pout"]),
                 power_out |-> v["Pout"], power_efficiency |-> 88])
    ELSE ReturnNone

\* The second loop of process_sensors over psus.items(), up to its end or
\* to the first error.
RECURSIVE psu_metrics(_)
psu_metrics(items) ==
    IF items = <<>> THEN Return(<<>>)
    ELSE LET before == psu_metrics(SubSeq(items, 1, Len(items) - 1))
             last == items[Len(items)]
             d == psu_metric(last.k, derive_power(last.v))
         IN  IF before.kind = "raise" THEN before
             ELSE IF d.kind = "raise" THEN d
             ELSE IF d.kind = "return_none" THEN before
             ELSE Return(Append(before.value, d.value))

\* The sensors are exhausted: process_sensors builds the PSU rows, inserts
\* them and returns.
BuildPsuMetrics ==
    /\ ppc = "scan"
    /\ LET r == psu_metrics(psus)
       IN  IF r.kind = "raise"
           THEN /\ proc_outcome' = r
                /\ ppc' = "crashed"
                /\ UNCHANGED <<powers, db>>
           ELSE /\ powers' = r.value
                /\ db' = IF r.value # <<>>
                         THEN [db EXCEPT !.psumetrics = @ \o r.value] ELSE db
                /\ ppc' = "rollup"
                /\ UNCHANGED proc_outcome
    /\ psus' = [n \in 1..Len(psus) |-> [k |-> psus[n].k, v |-> derive_power(psus[n].v)]]
    /\ UNCHANGED <<scanned, vitals, metrics, task, metrics_again, notProcessor>>

\* The product ids a record's assets can carry ("" is a blank pid).
AssetLists ==
    { << "ASR1001-X", "" >>,
      << "ASR1001-X", "NXA-PAC-650W-PE", "NXA-PAC-650W-PE",
         "N2200-PAC-400W", "N77-AC-3KW" >>,
      << "ASR1001-X", "PWR-C1-350WAC" >> }

\* process_assets: the assets with a non-blank pid, as their pids.
process_assets(inst) == SelectSeq(inst, LAMBDA a : a # "")

\* dbcon.fetch_psu_specs: the available power of the pids the table knows;
\* the table lists PWR-C1-350WAC with an available power of 0.
psu_avl ==
    [x \in {"NXA-PAC-650W-PE", "PWR-C1-350WAC"} |->
        IF x = "NXA-PAC-650W-PE" THEN 598 ELSE 0]

\* int(float(group 1) * 1000) of the match of (\d+\.*\d*)KW, 0 for no match,
\* and int(group 1) of the match of (\d+)W, 0 for no match.
kw_rating(pid) == IF pid = "N77-AC-3KW" THEN 3000 ELSE 0
w_rating(pid) ==
    CASE pid = "NXA-PAC-650W-PE" -> 650
      [] pid = "N2200-PAC-400W" -> 400
      [] pid = "PWR-C1-350WAC" -> 350
      [] pid = "N77-AC-3KW" -> 0
      [] OTHER -> 0

RECURSIVE process_psus(_)
process_psus(pids) ==
    IF pids = <<>> THEN 0
    ELSE LET pid == pids[Len(pids)]
             avl == IF pid \in DOMAIN psu_avl THEN psu_avl[pid] ELSE 0
             power_avl == IF avl # 0 THEN avl
                          ELSE IF kw_rating(pid) # 0 THEN kw_rating(pid)
                          ELSE w_rating(pid)
         IN  process_psus(SubSeq(pids, 1, Len(pids) - 1)) + power_avl

(***************************************************************************)
(* Text, as Python handles it in the textfsm parsers.  A str is modelled   *)
(* as the sequence of its characters.                                      *)
(***************************************************************************)
Upper == << "A", "B", "C", "D", "E", "F", "G", "H", "I", "J", "K", "L", "M",
            "N", "O", "P", "Q", "R", "S", "T", "U", "V", "W", "X", "Y", "Z" >>
Lower == << "a", "b", "c", "d", "e", "f", "g", "h", "i", "j", "k", "l", "m",
            "n", "o", "p", "q", "r", "s", "t", "u", "v", "w", "x", "y", "z" >>

\* str.lower()
str_lower(t) ==
    [ n \in 1..Len(t) |->
        IF \E u \in 1..Len(Upper) : Upper[u] = t[n]
        THEN Lower[CHOOSE u \in 1..Len(Upper) : Upper[u] = t[n]]
        ELSE t[n] ]

\* str.strip()
RECURSIVE str_strip(_)
str_strip(t) ==
    IF t = <<>> THEN t
    ELSE IF Head(t) = " " THEN str_strip(Tail(t))
    ELSE IF t[Len(t)] = " " THEN str_strip(SubSeq(t, 1, Len(t) - 1))
    ELSE t

\* 'needle in hay' for two str: the substring test.
str_in(needle, hay) ==
    \E i \in 0..(Len(hay) - Len(needle)) : SubSeq(hay, i + 1, i + Len(needle)) = needle

\* The lists of at most n elements of S.
ListsUpTo(S, n) == UNION { [1..m -> S] : m \in 0..n }

Digits == << "0", "1", "2", "3", "4", "5", "6", "7", "8", "9" >>
is_digit(c) == \E d \in 1..Len(Digits) : Digits[d] = c

\* The pattern of process_interfaces, searched with re.IGNORECASE:
\* \.\d+$ or one of the prefixes at the start of the name.
VirtualPrefixes ==
    { <<"L", "o", "o", "p", "b", "a", "c", "k">>, <<"P", "o", "r", "t", "-", "c", "h", "a", "n", "n", "e", "l">>,
      <<"V", "l", "a", "n">>, <<"m", "g", "m", "t">>, <<"P", "o">>,
      <<"T", "u", "n", "n", "e", "l">>, <<"B", "u", "n", "d", "l", "e">> }

\* The search as if the prefixes were compared case by case.
virtual_pattern_cased(name) ==
    \/ \E i \in 1..(Len(name) - 1) :
          /\ name[i] = "."
          /\ \A j \in (i + 1)..Len(name) : is_digit(name[j])
    \/ \E p \in VirtualPrefixes :
          /\ Len(p) <= Len(name)
          /\ SubSeq(name, 1, Len(p)) = p

virtual_pattern(name) ==
    LET t == str_lower(name)
    IN  \/ \E i \in 1..(Len(t) - 1) :
              /\ t[i] = "."
              /\ \A j \in (i + 1)..Len(t) : is_digit(t[j])
        \/ \E p \in VirtualPrefixes :
              /\ Len(p) <= Len(t)
              /\ SubSeq(t, 1, Len(p)) = str_lower(p)

PayloadInterface(name, bandwidth, input, output) ==
    [name |-> name, bandwidth |-> bandwidth,
     input_data_rate |-> input, output_data_rate |-> output]

\* The interface lists a record can carry.
InterfaceLists ==
    { << PayloadInterface(<<"L", "o", "o", "p", "b", "a", "c", "k", "0">>, 8000000, 5000, 5000),
         PayloadInterface(<<"G", "i", "g", "a", "b", "i", "t", "E", "t", "h", "e", "r", "n", "e", "t", "0", "/", "0", "/", "1">>, 0, 7000, 7000),
         PayloadInterface(<<"v", "l", "a", "n", "1", "0">>, 1000000, 3000, 3000) >>,
      << PayloadInterface(<<"G", "i", "g", "a", "b", "i", "t", "E", "t", "h", "e", "r", "n", "e", "t", "0", "/", "0", "/", "1", ".", "1", "0", "0">>, 1000000, 2000, 2000),
         PayloadInterface(<<"G", "i", "g", "a", "b", "i", "t", "E", "t", "h", "e", "r", "n", "e", "t", "0", "/", "0", "/", "2">>, 1000000, 400000, 100000),
         PayloadInterface(<<"P", "O", "S", "0", "/", "1", "/", "0">>, 2000000, 9000, 9000) >> }

\* The utilization of a metric: the quotient (in + out) * 100 / bandwidth,
\* kept as its two terms, or the ZeroDivisionError of a zero bandwidth.
utilization(i) ==
    IF i.bandwidth = 0 THEN Raise("ZeroDivisionError")
    ELSE Return([num |-> (i.input_data_rate + i.output_data_rate) * 100,
                 den |-> i.bandwidth])

process_interfaces(interface) ==
    LET kept_rows == SelectSeq(interface,
                         LAMBDA i : ~virtual_pattern(i.name) /\ i.bandwidth # 0)
    IN  [n \in 1..Len(kept_rows) |->
            [ifname |-> kept_rows[n].name, bandwidth |-> kept_rows[n].bandwidth,
             traffic_in |-> kept_rows[n].input_data_rate,
             traffic_out |-> kept_rows[n].output_data_rate,
             utilization |-> utilization(kept_rows[n])]]

\* process_interfaces of each list a record can carry.
interface_metrics == [interface \in InterfaceLists |-> process_interfaces(interface)]

RECURSIVE Sum(_, _)
Sum(rows, field) ==
    IF rows = <<>> THEN 0
    ELSE Sum(SubSeq(rows, 1, Len(rows) - 1), field) + rows[Len(rows)][field]

\* 0 if power_in == 0 else int(power_out * 100 / power_in)
power_efficiency(power_in, power_out) ==
    IF power_in = 0 THEN Return(0) ELSE int_div(power_out * 100, power_in)

power_utilization_unguarded(power_in, power_available) ==
    int_div(power_in * 100, Watts(power_available))

\* 0 if power_available == 0 else int(power_in * 100 / power_available)
power_utilization(power_in, power_available) ==
    IF power_available = 0 THEN Return(0)
    ELSE int_div(power_in * 100, Watts(power_available))

\* (traffic_in + traffic_out) / 1000000 as a whole number of thousandths:
\* the rates of the payloads above are whole thousands of kbps.
total_traffic(traffic_in, traffic_out) == TruncQuot(traffic_in + traffic_out, 1000)

\* 0 if total_traffic == 0 else int(power_in / total_traffic)
traffic_efficiency(power_in, total) ==
    IF total = 0 THEN Return(0) ELSE int_div(power_in * 1000, Watts(total))

\* What the live lookup can return (Unbound for None, else the
\* carbonIntensity of the response) and what the site of the record
\* configures as its average (Unbound for no such key).
Co2Lookups == {Unbound, Bound(0), Bound(450)}
SiteAverages == {Unbound, Bound(300)}

\* What metrics['power_in'] has carried over from the poll handled before
\* when the rollup starts: metrics is thrown away after each record.
initial_power_in_kept == IF ppc = "done" THEN metrics.power_in ELSE 0

\* 'power_in': 0 in the record main builds afresh for every poll.
initial_power_in == 0

\* The metrics record of one poll, or the error raised on the way.
rollup(rows, v, assets_found, ifaces, co2_intensity, site_average) ==
    LET power_in == initial_power_in + Sum(rows, "power_in")
        power_out == Sum(rows, "power_out")
        eff == power_efficiency(power_in, power_out)
        power_available == process_psus(assets_found)
        util == power_utilization(power_in, power_available)
        traffic_in == Sum(ifaces, "traffic_in")
        traffic_out == Sum(ifaces, "traffic_out")
        teff == traffic_efficiency(power_in, total_traffic(traffic_in, traffic_out))
    IN  IF eff.kind = "raise" THEN eff
        ELSE IF util.kind = "raise" THEN util
        ELSE IF teff.kind = "raise" THEN teff
        ELSE Return([power_in |-> power_in, power_out |-> power_out,
                     power_efficiency |-> eff.value,
                     power_available |-> power_available,
                     power_utilization |-> util.value,
                     traffic_in |-> traffic_in, traffic_out |-> traffic_out,
                     traffic_efficiency |-> teff.value,
                     temperature |-> v.temperature,
                     cpu_usage |-> v.cpu_usage,
                     memory_usage |-> v.memory_usage,
                     co2_intensity |->
                        IF co2_intensity.bound /\ co2_intensity.value # 0
                        THEN co2_intensity.value
                        ELSE IF site_average.bound THEN site_average.value
                        ELSE 0])

\* The rest of the handling of the poll: the chassis metrics are derived
\* from the rows of the three helpers and written.
Rollup ==
    /\ ppc = "rollup"
    /\ \E inst \in AssetLists, interface \in InterfaceLists,
          co2 \in Co2Lookups, avg \in SiteAverages :
          LET assets_found == process_assets(inst)
              ifaces == interface_metrics[interface]
              r == rollup(powers, vitals, assets_found, ifaces, co2, avg)
          IN  /\ proc_outcome' = r
              /\ task' = [inst |-> inst, interface |-> interface,
                          co2_intensity |-> co2, site_average |-> avg]
              /\ IF r.kind = "raise"
                 THEN /\ ppc' = "crashed"
                      /\ metrics' = metrics
                      /\ db' = [db EXCEPT !.assets = @ \o assets_found,
                                          !.ifmetrics = @ \o ifaces]
                 ELSE /\ ppc' = "done"
                      /\ metrics' = r.value
                      /\ db' = [db EXCEPT !.assets = @ \o assets_found,
                                          !.ifmetrics = @ \o ifaces,
                                          !.powermetrics = Append(@, r.value)]
    /\ UNCHANGED <<scanned, psus, vitals, powers, metrics_again, notProcessor>>

\* process_sensors on a whole sensor list: the locals after the first loop.
RECURSIVE scan_sensors(_)
scan_sensors(sensors) ==
    IF sensors = <<>>
    THEN [psus |-> <<>>,
          vitals |-> [cpu_usage |-> -1, memory_usage |-> -1, temperature |-> -1]]
    ELSE sensor_step(scan_sensors(SubSeq(sensors, 1, Len(sensors) - 1)),
                     sensors[Len(sensors)])

\* The body of 'for poweff in task_config[poweff]' as one function of the
\* record and of what the lookups answered.
derive(sensors, inst, interface, co2, avg) ==
    LET l == scan_sensors(sensors)
        rows == psu_metrics(l.psus)
    IN  IF rows.kind = "raise" THEN rows
        ELSE rollup(rows.value, l.vitals, process_assets(inst),
                    interface_metrics[interface], co2, avg)

\* The same record is handled a second time, with the same answers from
\* the PSU table, the site configuration and the carbon-intensity lookup.
Rederive ==
    /\ ppc = "done"
    /\ LET r == derive(scanned, task.inst, task.interface,
                       task.co2_intensity, task.site_average)
       IN  /\ metrics_again' = r
           /\ db' = IF r.kind = "raise" THEN db
                    ELSE [db EXCEPT !.powermetrics = Append(@, r.value)]
    /\ ppc' = "rederived"
    /\ UNCHANGED <<scanned, psus, vitals, powers, metrics, task, proc_outcome,
                   notProcessor>>

(***************************************************************************)
(* processor/energymap_proxy.py: the carbon-intensity cache.  The module    *)
(* dict is shared by every caller of get_co2_intensity in the process.      *)
(* Time is counted in seconds and advances in steps of TickSeconds; a       *)
(* request takes time, so the clock may advance between the request and     *)
(* the cache write.                                                         *)
(***************************************************************************)
MaxCalls == 4
MaxTicks == 4
TickSeconds == 120
TTL == 360

Callers == {"c1", "c2"}
Coordinates == {<<48, 2>>, <<52, 13>>}

\* What requests.get can give: a 200 with a carbonIntensity, another status,
\* or an exception (timeout, connection error, malformed payload).
Responses ==
    { [kind |-> "ok", status_code |-> 200, carbonIntensity |-> v] : v \in {0, 450} }
        \cup { [kind |-> "ok", status_code |-> 500, carbonIntensity |-> 0],
               [kind |-> "exception", status_code |-> 0, carbonIntensity |-> 0] }

NoResponse == [kind |-> "none", status_code |-> 0, carbonIntensity |-> 0]
NoEntry == [present |-> FALSE, timestamp |-> 0, value |-> 0]
Entry(t, v) == [present |-> TRUE, timestamp |-> t, value |-> v]

\* How a call ended: None, the cached value, or the value just fetched.
Returned(how, v) == [how |-> how, value |-> v]
NotCalled == Returned("not called", 0)

\* 'record and time.time() - record[0] < 360'
fresh(record, t) == record.present /\ t - record.timestamp < TTL

CacheIdle ==
    /\ co2_intensity_cache = [k \in Coordinates |-> NoEntry]
    /\ now = 0
    /\ api_key = TRUE
    /\ cpc = [c \in Callers |-> "idle"]
    /\ ckey = [c \in Callers |-> <<48, 2>>]
    /\ response = [c \in Callers |-> NoResponse]
    /\ cret = [c \in Callers |-> NotCalled]
    /\ calls = 0
    /\ requests = <<>>

\* The process starts with an empty cache, with or without an API key.
CacheInit ==
    /\ co2_intensity_cache = [k \in Coordinates |-> NoEntry]
    /\ now = 0
    /\ api_key \in BOOLEAN
    /\ cpc = [c \in Callers |-> "idle"]
    /\ ckey = [c \in Callers |-> <<48, 2>>]
    /\ response = [c \in Callers |-> NoResponse]
    /\ cret = [c \in Callers |-> NotCalled]
    /\ calls = 0
    /\ requests = <<>>

\* get_co2_intensity up to the cache check: no key -> None; a fresh entry
\* -> its value; otherwise go on to the request.
get_co2_intensity(c, k) ==
    /\ cpc[c] = "idle"
    /\ calls < MaxCalls
    /\ calls' = calls + 1
    /\ ckey' = [ckey EXCEPT ![c] = k]
    /\ IF ~api_key
       THEN /\ cret' = [cret EXCEPT ![c] = Returned("None", 0)]
            /\ UNCHANGED cpc
       ELSE LET record == co2_intensity_cache[k]
            IN  IF fresh(record, now)
                THEN /\ cret' = [cret EXCEPT ![c] = Returned("cached", record.value)]
                     /\ UNCHANGED cpc
                ELSE /\ cpc' = [cpc EXCEPT ![c] = "request"]
                     /\ cret' = [cret EXCEPT ![c] = NotCalled]
    /\ UNCHANGED <<co2_intensity_cache, now, api_key, response, requests, notCache>>

\* requests.get(...): the external lookup is issued and answered.
Request(c) ==
    \E r \in Responses :
        /\ cpc[c] = "request"
        /\ requests' = Append(requests, [key |-> ckey[c], at |-> now])
        /\ response' = [response EXCEPT ![c] = r]
        /\ cpc' = [cpc EXCEPT ![c] = "response"]
        /\ UNCHANGED <<co2_intensity_cache, now, api_key, ckey, cret, calls, notCache>>

\* The rest of the try block: only a 200 updates the cache.
Respond(c) ==
    /\ cpc[c] = "response"
    /\ LET r == response[c]
       IN  IF r.kind = "ok" /\ r.status_code = 200
           THEN /\ co2_intensity_cache' =
                      [co2_intensity_cache EXCEPT
                          ![ckey[c]] = Entry(now, r.carbonIntensity)]
                /\ cret' = [cret EXCEPT ![c] = Returned("fetched", r.carbonIntensity)]
           ELSE /\ cret' = [cret EXCEPT ![c] = Returned("None", 0)]
                /\ UNCHANGED co2_intensity_cache
    /\ cpc' = [cpc EXCEPT ![c] = "idle"]
    /\ response' = [response EXCEPT ![c] = NoResponse]
    /\ UNCHANGED <<now, api_key, ckey, calls, requests, notCache>>

\* The processor's loop calls get_co2_intensity once per record and waits
\* for it to return before the next call.
BackToBackCall(c, k) ==
    /\ \A d \in Callers : cpc[d] = "idle"
    /\ get_co2_intensity(c, k)

Tick ==
    /\ now < MaxTicks * TickSeconds
    /\ now' = now + TickSeconds
    /\ UNCHANGED <<co2_intensity_cache, api_key, cpc, ckey, response, cret, calls, requests, notCache>>

\* Callers that may be inside get_co2_intensity at the same time.
CacheNext ==
    \/ \E c \in Callers, k \in Coordinates : get_co2_intensity(c, k)
    \/ \E c \in Callers : Request(c)
    \/ \E c \in Callers : Respond(c)
    \/ Tick

\* Calls one after the other, as processor.main makes them.
CacheSerialNext ==
    \/ \E c \in Callers, k \in Coordinates : BackToBackCall(c, k)
    \/ \E c \in Callers : Request(c)
    \/ \E c \in Callers : Respond(c)
    \/ Tick

(***************************************************************************)
(* ssh_collector/ssh_collector.py and normalisers/normaliser_factory.py:   *)
(* the collector's event loop.  The loop sits in a try whose only handler  *)
(* is for KeyboardInterrupt, so any other exception leaves main.           *)
(***************************************************************************)
MaxTasks == 2
MaxRecords == 3

CollectorFamilies == {"ASR1k", "Cat9300", "Nexus9k"}

\* What normalise() gives the loop: None, a list of n records, or the
\* KeyError of location['Latitude'] for a site without coordinates.
NormaliseOutcomes ==
    { [kind |-> "None", n |-> 0], [kind |-> "KeyError", n |-> 0] }
        \cup { [kind |-> "list", n |-> n] : n \in 1..MaxRecords }

\* A task as consumed from ssh_schedules, with what the device and the
\* message queue will answer while it is handled.
Tasks ==
    [ connection : {"ssh"},
      family : CollectorFamilies,
      connects : BOOLEAN,
      command_data : {"None", "results"},
      disconnects : BOOLEAN,
      poweff_data : NormaliseOutcomes,
      produce : {"ok", "raise"} ]

NoTask ==
    [ connection |-> "ssh", family |-> "ASR1k", connects |-> FALSE,
      command_data |-> "None", disconnects |-> TRUE,
      poweff_data |-> [kind |-> "None", n |-> 0],
      produce |-> "ok" ]

\* normaliser_factory.get_normaliser: the class instantiated, or "None"
\* where the function falls off its end.
get_normaliser(conn_type, fam) ==
    IF conn_type \in {"ssh", "cspc", "radkit"}
    THEN IF fam = "ASR1k" THEN "Asr1k_Cli_Normaliser"
         ELSE IF fam = "Cat9300" THEN "Cat9300_Cli_Normaliser"
         ELSE "None"
    ELSE "None"

\* SSH_Connection.__init__: no handle yet.  session is the state of the
\* device's side: open between a successful connect and the disconnect.
SSH_Connection == [handle |-> "None", session |-> "closed"]

\* SSH_Connection.connect where the device answers or not: the handle is
\* kept when the connection is made and reset to None when it fails.
connect(conn, answers) ==
    IF answers THEN [handle |-> "device", session |-> "open"]
    ELSE [handle |-> "None", session |-> "closed"]

\* SSH_Connection.execute: None without a handle, else what the commands gave.
execute(conn, results) == IF conn.handle = "None" THEN "None" ELSE results

\* SSH_Connection.disconnect as if it only forgot the handle.
disconnect_forgets_handle(conn) == [handle |-> "None", session |-> conn.session]

\* SSH_Connection.disconnect: the device is disconnected where there is a
\* handle, and the handle is forgotten.
disconnect(conn) ==
    [handle |-> "None",
     session |-> IF conn.handle # "None" THEN "closed" ELSE conn.session]

CollectorIdle ==
    /\ lpc = "idle"
    /\ ltask = NoTask
    /\ batch_size = 10
    /\ poweff_index = 0
    /\ consumed = 0
    /\ published = <<>>
    /\ abandoned = <<>>
    /\ lexc = "none"
    /\ connection = SSH_Connection

\* main has read its environment and waits for the first task.
CollectorInit ==
    /\ lpc = "consume"
    /\ ltask = NoTask
    /\ batch_size \in {1, 2, 10}
    /\ poweff_index = 0
    /\ consumed = 0
    /\ published = <<>>
    /\ abandoned = <<>>
    /\ lexc = "none"
    /\ connection = SSH_Connection

\* messaging.consume and the reading of the task's fields.
Consume ==
    /\ lpc = "consume"
    /\ consumed < MaxTasks
    /\ \E t \in Tasks : ltask' = t
    /\ consumed' = consumed + 1
    /\ lpc' = "get_commands"
    /\ UNCHANGED <<batch_size, poweff_index, published, abandoned, lexc, connection,
                   notCollector>>

\* normaliser = get_normaliser(task_config); commands = normaliser.get_commands();
\* connection = SSH_Connection(task_config)
GetCommands ==
    /\ lpc = "get_commands"
    /\ IF get_normaliser(ltask.connection, ltask.family) = "None"
       THEN /\ lpc' = "terminated"
            /\ lexc' = "AttributeError"
            /\ UNCHANGED connection
       ELSE /\ lpc' = "connect"
            /\ connection' = SSH_Connection
            /\ UNCHANGED lexc
    /\ UNCHANGED <<ltask, batch_size, poweff_index, consumed, published, abandoned,
                   notCollector>>

\* connection.connect(): False -> continue.
Connect ==
    /\ lpc = "connect"
    /\ connection' = connect(connection, ltask.connects)
    /\ IF ~ltask.connects
       THEN /\ lpc' = "consume"
            /\ abandoned' = Append(abandoned, consumed)
       ELSE /\ lpc' = "execute"
            /\ UNCHANGED abandoned
    /\ UNCHANGED <<ltask, batch_size, poweff_index, consumed, published, lexc,
                   notCollector>>

\* command_data = connection.execute(commands); connection.disconnect();
\* no command_data -> continue.  What the device's disconnect raises
\* leaves main.
Execute ==
    /\ lpc = "execute"
    /\ LET command_data == execute(connection, ltask.command_data)
       IN  IF ~ltask.disconnects
           THEN /\ lpc' = "terminated"
                /\ lexc' = "Exception"
                /\ UNCHANGED <<abandoned, connection>>
           ELSE /\ connection' = disconnect(connection)
                /\ UNCHANGED lexc
                /\ IF command_data = "None"
                   THEN /\ lpc' = "consume"
                        /\ abandoned' = Append(abandoned, consumed)
                   ELSE /\ lpc' = "normalise"
                        /\ UNCHANGED abandoned
    /\ UNCHANGED <<ltask, batch_size, poweff_index, consumed, published, notCollector>>

\* poweff_data = normaliser.normalise(...): None -> continue; an exception
\* normalise does not catch leaves main.
NormaliseTask ==
    /\ lpc = "normalise"
    /\ CASE ltask.poweff_data.kind = "None" ->
                /\ lpc' = "consume"
                /\ abandoned' = Append(abandoned, consumed)
                /\ UNCHANGED <<lexc, poweff_index>>
         [] ltask.poweff_data.kind = "KeyError" ->
                /\ lpc' = "terminated"
                /\ lexc' = "KeyError"
                /\ UNCHANGED <<abandoned, poweff_index>>
         [] OTHER ->
                /\ lpc' = "publish"
                /\ poweff_index' = 0
                /\ UNCHANGED <<abandoned, lexc>>
    /\ UNCHANGED <<ltask, batch_size, consumed, published, connection, notCollector>>

\* The list normalise() returned, its records numbered in their order.
poweff_list(n) == [i \in 1..n |-> i]

\* poweff_data[poweff_index:poweff_index + batch_size] as if the slice
\* took one record more.
batch_poweff_one_more(poweff_data, index, size) ==
    SubSeq(poweff_data, index + 1, IF index + size + 1 < Len(poweff_data)
                                   THEN index + size + 1 ELSE Len(poweff_data))

\* poweff_data[poweff_index:poweff_index + batch_size]
batch_poweff(poweff_data, index, size) ==
    SubSeq(poweff_data, index + 1, IF index + size < Len(poweff_data)
                                   THEN index + size ELSE Len(poweff_data))

\* list(filter(None, batch_poweff)): a serialised record is a dict that
\* holds 'inst', so none is dropped.
filter_none(batch) == SelectSeq(batch, LAMBDA record : record # 0)

\* One iteration of 'for poweff_index in range(0, len(poweff_data),
\* batch_size)': messaging.produce re-raises what the producer raised.
PublishBatch ==
    /\ lpc = "publish"
    /\ IF ltask.produce = "raise"
       THEN /\ lpc' = "terminated"
            /\ lexc' = "Exception"
            /\ UNCHANGED <<published, poweff_index>>
       ELSE /\ published' = Append(published,
                                   [task |-> consumed, index |-> poweff_index,
                                    poweff |-> filter_none(batch_poweff(
                                        poweff_list(ltask.poweff_data.n),
                                        poweff_index, batch_size))])
            /\ poweff_index' = poweff_index + batch_size
            /\ lpc' = IF poweff_index + batch_size < ltask.poweff_data.n
                      THEN "publish" ELSE "consume"
            /\ UNCHANGED lexc
    /\ UNCHANGED <<ltask, batch_size, consumed, abandoned, connection, notCollector>>

CollectorNext ==
    \/ Consume
    \/ GetCommands
    \/ Connect
    \/ Execute
    \/ NormaliseTask
    \/ PublishBatch

ParserIdle ==
    /\ fpc = "idle"
    /\ tokenized = <<>>
    /\ rows_done = 0
    /\ data_built = <<>>
    /\ sensor_temperature = Unbound
    /\ fret = None
    /\ tokenized_snmp_interface = <<>>

(***************************************************************************)
(* normalisers/iosxe_cli_normaliser.py: _parse_inventory_textfsm.          *)
(***************************************************************************)
MaxInventory == 2

\* The SN and VID texts a 'show inventory' row can carry.
InventoryTexts ==
    { << "N", "/", "A" >>, << "n", "/", "a" >>, <<>>, << " " >>,
      << " ", "F", "O", "C", "1", " " >>, << "V", "0", "1" >> }

ShowInventory == [ SN : InventoryTexts, VID : InventoryTexts ]

InventoryInit ==
    /\ fpc = "inventory"
    /\ tokenized \in ListsUpTo(ShowInventory, MaxInventory)
    /\ rows_done = 0
    /\ data_built = <<>>
    /\ sensor_temperature = Unbound
    /\ fret = None
    /\ tokenized_snmp_interface = <<>>

\* The sentinel rule as written: the lower-cased text is looked up in the
\* tuple ("N/A", "").
sentinel(text) ==
    IF str_lower(text) \in { << "N", "/", "A" >>, <<>> }
    THEN << "N", "A" >> ELSE text

\* One iteration of 'for inv in show_inventory'.
InventoryRow ==
    /\ fpc = "inventory"
    /\ rows_done < Len(tokenized)
    /\ LET inv == tokenized[rows_done + 1]
           params == [ serial |-> sentinel(str_strip(inv.SN)),
                       vid |-> sentinel(str_strip(inv.VID)),
                       slot |-> "None" ]
       IN  data_built' = Append(data_built, params)
    /\ rows_done' = rows_done + 1
    /\ UNCHANGED <<fpc, tokenized, sensor_temperature, fret, tokenized_snmp_interface, notParser>>

\* asset_data[0]['slot'] = 'Chassis'; return asset_data
InventoryReturn ==
    /\ fpc = "inventory"
    /\ rows_done = Len(tokenized)
    /\ IF data_built = <<>>
       THEN /\ fret' = Raise("IndexError")
            /\ UNCHANGED data_built
       ELSE /\ data_built' = [data_built EXCEPT ![1].slot = "Chassis"]
            /\ fret' = Return(data_built')
    /\ fpc' = "returned"
    /\ UNCHANGED <<tokenized, rows_done, sensor_temperature, tokenized_snmp_interface, notParser>>

InventoryNext ==
    \/ InventoryRow
    \/ InventoryReturn

(***************************************************************************)
(* normalisers/iosxe_cli_normaliser.py: _parse_memory_textfsm.  A reading  *)
(* is held in hundredths of a percent.                                     *)
(***************************************************************************)
MaxMemory == 2

\* The tokens of a row: Unbound is a text int() rejects.
MemTotals == {Unbound, Bound(0), Bound(3), Bound(1000)}
MemUseds == {Unbound, Bound(1), Bound(400)}
MemFrees == {Bound(2), Bound(550), Bound(601)}

ShowMemory == [ mem_total : MemTotals, mem_used : MemUseds, mem_free : MemFrees ]

MemoryInit ==
    /\ fpc = "memory"
    /\ tokenized \in ListsUpTo(ShowMemory, MaxMemory)
    /\ rows_done = 0
    /\ data_built = <<>>
    /\ sensor_temperature = Unbound
    /\ fret = None
    /\ tokenized_snmp_interface = <<>>

\* round(x, 2) of the quotient num / den, in hundredths: to the nearest
\* hundredth, ties to even.
round2(num, den) ==
    LET q == (num * 100) \div den
        twice == 2 * ((num * 100) % den)
    IN  IF twice > den THEN q + 1
        ELSE IF twice < den THEN q
        ELSE IF q % 2 = 0 THEN q ELSE q + 1

\* round(100 * (mem_used / mem_total), 2)
memory_reading(mem_used, mem_total) ==
    IF mem_total = 0 THEN Raise("ZeroDivisionError")
    ELSE Return(round2(100 * mem_used, mem_total))

\* The whole of _parse_memory_textfsm.
parse_memory(rows) ==
    IF Len(rows) = 0 THEN Return(<<>>)
    ELSE LET mem_total == rows[1].mem_total
             mem_used == rows[1].mem_used
             mem_free == rows[1].mem_free
         IN  IF ~(mem_total.bound /\ mem_used.bound /\ mem_free.bound)
             THEN Return(<<>>)
             ELSE IF Abs(mem_free.value + mem_used.value - mem_total.value) > 10
             THEN Return(<<>>)
             ELSE LET reading == memory_reading(mem_used.value, mem_total.value)
                  IN  IF reading.kind = "raise" THEN reading
                      ELSE Return(<< [ location |-> "Chassis",
                                       reading |-> reading.value,
                                       units |-> "Percentage",
                                       state |-> "NA",
                                       name |-> "Memory" ] >>)

MemoryParse ==
    /\ fpc = "memory"
    /\ fret' = parse_memory(tokenized)
    /\ rows_done' = IF Len(tokenized) = 0 THEN 0 ELSE 1
    /\ fpc' = "returned"
    /\ UNCHANGED <<tokenized, data_built, sensor_temperature, tokenized_snmp_interface, notParser>>

MemoryNext == MemoryParse

(***************************************************************************)
(* normalisers/cat9300_cli_normaliser.py: _parse_temperature_textfsm.      *)
(***************************************************************************)
MaxEnvironment == 2

\* The texts of the STATE column of the rows (field State here).
StateTexts ==
    { << "G", "O", "O", "D" >>, << " ", "g", "r", "e", "e", "n", " " >>,
      << "y", "e", "l", "l", "o", "w" >>, << "R", "e", "d" >>,
      <<>>, << "e", "d" >>, << "F", "a", "u", "l", "t", "y" >> }

UnitTexts == { << "C", "e", "l", "s", "i", "u", "s" >>, << "F" >> }

Inlet == << "I", "n", "l", "e", "t" >>
Outlet == << "O", "u", "t", "l", "e", "t" >>

\* The rows of 'show environment all': inlet rows with a numeric reading in
\* every state and unit, an inlet row whose reading float() rejects, and a
\* row of another sensor.
ShowEnvironment ==
    { [ SENSOR |-> Inlet, READING |-> Bound(25), State |-> st, UNITS |-> u ] :
          st \in StateTexts, u \in UnitTexts }
        \cup { [ SENSOR |-> Inlet, READING |-> Unbound,
                 State |-> << "G", "O", "O", "D" >>,
                 UNITS |-> << "C", "e", "l", "s", "i", "u", "s" >> ],
               [ SENSOR |-> Outlet, READING |-> Bound(30),
                 State |-> << "R", "e", "d" >>,
                 UNITS |-> << "C", "e", "l", "s", "i", "u", "s" >> ] }

TemperatureInit ==
    /\ fpc = "temperature"
    /\ tokenized \in ListsUpTo(ShowEnvironment, MaxEnvironment)
    /\ rows_done = 0
    /\ data_built = <<>>
    /\ sensor_temperature = Unbound
    /\ fret = None
    /\ tokenized_snmp_interface = <<>>

\* The if/elif chain on sensor_state.lower().strip(): the first test is a
\* membership in a tuple of three str, the other two are 'in' a str.
state_of(text) ==
    LET t == str_strip(str_lower(text))
    IN  IF t \in { << "n", "o", "r", "m", "a", "l" >>, << "g", "o", "o", "d" >>,
                   << "g", "r", "e", "e", "n" >> }
        THEN << "N", "o", "r", "m", "a", "l" >>
        ELSE IF str_in(t, << "y", "e", "l", "l", "o", "w" >>)
        THEN << "W", "a", "r", "n", "i", "n", "g" >>
        ELSE IF str_in(t, << "r", "e", "d" >>)
        THEN << "C", "r", "i", "t", "i", "c", "a", "l" >>
        ELSE text

\* 'Celsius' if the units mention celsius, else the units as reported.
units_of(text) ==
    IF str_in(<< "c", "e", "l", "s", "i", "u", "s" >>, str_lower(text))
    THEN << "C", "e", "l", "s", "i", "u", "s" >> ELSE text

\* A row gets past the two 'continue's of the loop.
passes(sensor) ==
    /\ sensor.READING.bound
    /\ str_in(<< "i", "n", "l", "e", "t" >>, str_lower(sensor.SENSOR))

\* The dict the loop body binds to sensor_temperature.
temp_sensor(sensor) ==
    [ location |-> sensor.SENSOR,
      reading |-> sensor.READING.value,
      units |-> units_of(sensor.UNITS),
      state |-> state_of(sensor.State),
      name |-> "Temp" ]

\* One iteration of 'for sensor in show_environment'.
TemperatureRow ==
    /\ fpc = "temperature"
    /\ rows_done < Len(tokenized)
    /\ LET sensor == tokenized[rows_done + 1]
       IN  sensor_temperature' =
               IF passes(sensor) THEN Bound(temp_sensor(sensor))
               ELSE sensor_temperature
    /\ rows_done' = rows_done + 1
    /\ UNCHANGED <<fpc, tokenized, data_built, fret, tokenized_snmp_interface, notParser>>

\* After the loop: sensor_data.append(sensor_temperature); return.
TemperatureReturn ==
    /\ fpc = "temperature"
    /\ rows_done = Len(tokenized)
    /\ IF sensor_temperature.bound
       THEN /\ data_built' = Append(data_built, sensor_temperature.value)
            /\ fret' = Return(data_built')
       ELSE /\ fret' = Raise("UnboundLocalError")
            /\ UNCHANGED data_built
    /\ fpc' = "returned"
    /\ UNCHANGED <<tokenized, rows_done, sensor_temperature, tokenized_snmp_interface, notParser>>

TemperatureNext ==
    \/ TemperatureRow
    \/ TemperatureReturn

(***************************************************************************)
(* normalisers/iosxe_cli_normaliser.py: _parse_interfaces.  The regular    *)
(* expressions are computed on the character sequences.                    *)
(***************************************************************************)
MaxInterfaces == 2

digit_value(c) == (CHOOSE d \in 1..Len(Digits) : Digits[d] = c) - 1

\* int() of a run of digits.
RECURSIVE int_of(_)
int_of(t) ==
    IF t = <<>> THEN 0
    ELSE 10 * int_of(SubSeq(t, 1, Len(t) - 1)) + digit_value(t[Len(t)])

\* re.search(r"\d+", t): the first maximal run of digits as a number, or
\* Unbound for no match.
first_int(t) ==
    IF \A n \in 1..Len(t) : ~is_digit(t[n]) THEN Unbound
    ELSE LET first == CHOOSE n \in 1..Len(t) :
                          is_digit(t[n]) /\ \A m \in 1..(n - 1) : ~is_digit(t[m])
             last == CHOOSE n \in first..Len(t) :
                         /\ \A m \in first..n : is_digit(t[m])
                         /\ (n = Len(t) \/ ~is_digit(t[n + 1]))
         IN  Bound(int_of(SubSeq(t, first, last)))

\* re.search(r"\d+\s?\Sb", t): a digit, an optional blank, a character
\* that is no blank, and a lower-case b.
speed_pattern(t) ==
    \E j \in 1..Len(t) :
        /\ is_digit(t[j])
        /\ \/ j + 2 <= Len(t) /\ t[j + 1] # " " /\ t[j + 2] = "b"
           \/ j + 3 <= Len(t) /\ t[j + 1] = " " /\ t[j + 2] # " " /\ t[j + 3] = "b"

\* kw followed by an optional blank and a digit or a slash.
keyword_then_port(t, kw) ==
    \E i \in 1..Len(t) :
        LET after == i + Len(kw)
            port(n) == n <= Len(t) /\ (is_digit(t[n]) \/ t[n] = "/")
        IN  /\ after - 1 <= Len(t)
            /\ SubSeq(t, i, after - 1) = kw
            /\ (port(after) \/ (after <= Len(t) /\ t[after] = " " /\ port(after + 1)))

\* _is_physical_interface
is_physical_interface(name) ==
    LET t == str_lower(name)
    IN  \/ keyword_then_port(t, <<"e", "t", "h", "e", "r", "n", "e", "t">>)
        \/ keyword_then_port(t, <<"g", "i", "g", "e">>)
        \/ str_in(<<"m", "g", "m", "t", "e", "t", "h">>, t)

\* _match_ifindex as if the loop kept the last row of that name.
match_ifindex_last(ifname, rows) ==
    IF \E n \in 1..Len(rows) : rows[n].IFNAME = ifname
    THEN rows[CHOOSE n \in 1..Len(rows) :
                 /\ rows[n].IFNAME = ifname
                 /\ \A m \in (n + 1)..Len(rows) : rows[m].IFNAME # ifname].IFINDEX
    ELSE ""

\* _match_ifindex: the IFINDEX of the first row of that name, else "".
match_ifindex(ifname, rows) ==
    IF \E n \in 1..Len(rows) : rows[n].IFNAME = ifname
    THEN rows[CHOOSE n \in 1..Len(rows) :
                 /\ rows[n].IFNAME = ifname
                 /\ \A m \in 1..(n - 1) : rows[m].IFNAME # ifname].IFINDEX
    ELSE ""

\* A speed is a number or the raw text.
SpeedNumber(n) == [number |-> TRUE, value |-> n, text |-> <<>>]
SpeedText(t) == [number |-> FALSE, value |-> 0, text |-> t]

\* The speed of a row.
duplex_speed(raw) ==
    IF speed_pattern(raw)
    THEN LET n == first_int(raw).value
             low == str_lower(raw)
         IN  IF str_in(<<"k", "b">>, low) THEN SpeedNumber(n)
             ELSE IF str_in(<<"m", "b">>, low) THEN SpeedNumber(n * 1000)
             ELSE IF str_in(<<"g", "b">>, low) THEN SpeedNumber(n * 1000000)
             ELSE SpeedText(raw)
    ELSE SpeedText(raw)

ZeroRates ==
    [ input_packet_rate |-> 0, input_data_rate |-> 0, output_packet_rate |-> 0,
      output_data_rate |-> 0, data_rate_frequency |-> 0 ]

\* The load interval in seconds, or Unbound where the text has no number.
load_interval(raw) ==
    LET n == first_int(raw)
    IN  IF ~n.bound THEN Unbound
        ELSE IF str_in(<<"m", "i", "n", "u", "t", "e">>, raw) THEN Bound(n.value * 60)
        ELSE n

\* The five assignments of the try block in their order, each as the
\* field it sets and the value int() gives (Unbound where it raises).
rate_steps(token) ==
    << [field |-> "input_packet_rate", v |-> token.INPUT_RATE_PPS],
       [field |-> "input_data_rate",
        v |-> IF token.INPUT_RATE_BPS.bound
              THEN Bound(token.INPUT_RATE_BPS.value \div 1000) ELSE Unbound],
       [field |-> "output_packet_rate", v |-> token.OUTPUT_RATE_PPS],
       [field |-> "output_data_rate",
        v |-> IF token.OUTPUT_RATE_BPS.bound
              THEN Bound(token.OUTPUT_RATE_BPS.value \div 1000) ELSE Unbound],
       [field |-> "data_rate_frequency", v |-> load_interval(token.LOAD_INTERVAL_INPUT)] >>

\* The fields as the try block leaves them when it stops at the first
\* assignment that raises.
assigned_rates(token) ==
    LET steps == rate_steps(token)
        stop == IF \A k \in 1..5 : steps[k].v.bound THEN 6
                ELSE CHOOSE k \in 1..5 :
                         ~steps[k].v.bound /\ \A m \in 1..(k - 1) : steps[m].v.bound
    IN  [ f \in DOMAIN ZeroRates |->
            LET k == CHOOSE n \in 1..5 : steps[n].field = f
            IN  IF k < stop THEN steps[k].v.value ELSE 0 ]

\* An except branch that left the fields already assigned as they are.
except_keeps_assigned(assigned) == assigned

\* The except branch: all five fields are set to 0.
except_branch(assigned) == ZeroRates

\* The rate group of a row.
rate_group(token) ==
    IF \A k \in 1..5 : rate_steps(token)[k].v.bound
    THEN assigned_rates(token)
    ELSE except_branch(assigned_rates(token))

\* The interface dict built from a row that is kept.
interface_of(token, snmp) ==
    LET rates == rate_group(token)
        bandwidth_match == first_int(token.BANDWIDTH)
    IN  [ name |-> token.INTERFACE,
          if_index |-> match_ifindex(token.INTERFACE, snmp),
          bandwidth |-> IF bandwidth_match.bound THEN bandwidth_match.value ELSE 0,
          speed |-> duplex_speed(token.SPEED),
          input_packet_rate |-> rates.input_packet_rate,
          input_data_rate |-> rates.input_data_rate,
          output_packet_rate |-> rates.output_packet_rate,
          output_data_rate |-> rates.output_data_rate,
          data_rate_frequency |-> rates.data_rate_frequency ]

\* The two filters of the loop.
kept(token) ==
    /\ is_physical_interface(token.INTERFACE)
    /\ str_in(<<"u", "p">>, token.LINK_STATUS)

Gi000 == <<"G", "i", "g", "a", "b", "i", "t", "E", "t", "h", "e", "r", "n", "e", "t", "0", "/", "0", "/", "0">>
Gi001 == <<"G", "i", "g", "a", "b", "i", "t", "E", "t", "h", "e", "r", "n", "e", "t", "0", "/", "0", "/", "1">>

\* A physical port that is up, with a speed and all five counters.
PlainRow ==
    [ INTERFACE |-> Gi000, LINK_STATUS |-> <<"u", "p">>,
      BANDWIDTH |-> <<"1", "0", "0", "0", "0", "0", "0", " ", "K", "b", "i", "t">>, SPEED |-> <<"1", "0", "0", "0", "M", "b", "/", "s">>,
      INPUT_RATE_PPS |-> Bound(5), INPUT_RATE_BPS |-> Bound(2999),
      OUTPUT_RATE_PPS |-> Bound(7), OUTPUT_RATE_BPS |-> Bound(4000),
      LOAD_INTERVAL_INPUT |-> <<"5", " ", "m", "i", "n", "u", "t", "e">> ]

\* The rows of 'show interfaces': the plain row with another name or link
\* status, with another speed text, or with counters int() rejects.
ShowInterfaces ==
    { [PlainRow EXCEPT !.INTERFACE = n] : n \in {Gi000, Gi001, <<"L", "o", "o", "p", "b", "a", "c", "k", "0">>, <<"M", "g", "m", "t", "E", "t", "h", "0">>} }
      \cup { [PlainRow EXCEPT !.LINK_STATUS = l] : l \in {<<"d", "o", "w", "n">>, <<"U", "p">>} }
      \cup { [PlainRow EXCEPT !.SPEED = sp] :
                sp \in {<<"1", "0", " ", "G", "b", "/", "s">>, <<"1", "0", "G", "B">>, <<"1", "0", "0", " ", "K", "b">>, <<"a", "u", "t", "o", "-", "s", "p", "e", "e", "d">>, <<"1", "0", "0", "b">>} }
      \cup { [PlainRow EXCEPT !.INPUT_RATE_PPS = a, !.OUTPUT_RATE_BPS = b] :
                a \in {Bound(5), Unbound}, b \in {Bound(4000), Unbound} }
      \cup { [PlainRow EXCEPT !.LOAD_INTERVAL_INPUT = c] : c \in {<<"3", "0", " ", "s", "e", "c", "o", "n", "d", "s">>, <<>>} }
      \cup { [PlainRow EXCEPT !.BANDWIDTH = <<>>] }

SnmpTables ==
    { <<>>,
      << [IFNAME |-> Gi000, IFINDEX |-> "1"], [IFNAME |-> Gi000, IFINDEX |-> "7"] >>,
      << [IFNAME |-> str_lower(Gi001), IFINDEX |-> "2"],
         [IFNAME |-> Gi001, IFINDEX |-> "3"] >> }

InterfacesInit ==
    /\ fpc = "interfaces"
    /\ tokenized \in ListsUpTo(ShowInterfaces, MaxInterfaces)
    /\ tokenized_snmp_interface \in SnmpTables
    /\ rows_done = 0
    /\ data_built = <<>>
    /\ sensor_temperature = Unbound
    /\ fret = None

\* One iteration of 'for interface_token in tokenized'.
InterfaceRow ==
    /\ fpc = "interfaces"
    /\ rows_done < Len(tokenized)
    /\ LET interface_token == tokenized[rows_done + 1]
       IN  data_built' =
               IF kept(interface_token)
               THEN Append(data_built,
                           interface_of(interface_token, tokenized_snmp_interface))
               ELSE data_built
    /\ rows_done' = rows_done + 1
    /\ UNCHANGED <<fpc, tokenized, sensor_temperature, fret,
                   tokenized_snmp_interface, notParser>>

\* return interface_data
InterfacesReturn ==
    /\ fpc = "interfaces"
    /\ rows_done = Len(tokenized)
    /\ fret' = Return(data_built)
    /\ fpc' = "returned"
    /\ UNCHANGED <<tokenized, rows_done, data_built, sensor_temperature,
                   tokenized_snmp_interface, notParser>>

InterfacesNext ==
    \/ InterfaceRow
    \/ InterfacesReturn

ProcessorNext ==
    \/ ScanSensor
    \/ BuildPsuMetrics
    \/ Rollup
    \/ Rederive

PowerNext ==
    \/ Asr1kParseRow
    \/ Asr1kCallGenerate
    \/ IoutLoop
    \/ IinLoop
    \/ Asr1kEmit
    \/ Cat9kParseRow
    \/ Cat9kEmit

\* get_normaliser: the family selects the strategy.
PowerInit ==
    /\ PowerIdle
    /\ \/ family = "ASR1k" /\ pc = "asr1k_rows"
       \/ family = "Cat9300" /\ pc = "cat9k_rows"

ModelInit ==
    /\ BuilderInit /\ NormaliseInit /\ ProcessorIdle /\ CacheIdle /\ CollectorIdle /\ ParserIdle
    /\ PowerIdle /\ family = "none" /\ pc = "idle"

SpecModel == ModelInit /\ [][BuilderNext]_vars

SpecNormalise == ModelInit /\ [][NormaliseNext]_vars

InitPower == BuilderInit /\ NormaliseInit /\ ProcessorIdle /\ CacheIdle /\ CollectorIdle /\ ParserIdle /\ PowerInit

SpecPower == InitPower /\ [][PowerNext]_vars

\* _generate_chassis_power_from_vi called with four pairing maps: the
\* voltage maps over any of the slots, the current dicts over any of the
\* slots in any insertion order.
PairingSlots == Locations
PairingMaps == UNION { [S -> {4}] : S \in SUBSET PairingSlots }
PairingDicts ==
    { d \in ListsUpTo([k : PairingSlots, v : {2}], Cardinality(PairingSlots)) :
        \A m, n \in 1..Len(d) : d[m].k = d[n].k => m = n }

PairingInit ==
    /\ family = "ASR1k"
    /\ pc = "iout_loop"
    /\ row_index = 0
    /\ sensor_reading = Unbound
    /\ vout_dict \in PairingMaps /\ vin_dict \in PairingMaps
    /\ iout_dict \in PairingDicts /\ iin_dict \in PairingDicts
    /\ sensor_data = <<>>
    /\ chassis_total_power_out = 0
    /\ chassis_total_power_in = 0
    /\ out_log = <<>> /\ in_log = <<>>
    /\ inexact = FALSE
    /\ iterated = <<>>
    /\ given = [vout |-> vout_dict, vin |-> vin_dict,
                iout |-> AsMap(iout_dict), iin |-> AsMap(iin_dict)]

PairingNext ==
    \/ IoutLoop
    \/ IinLoop
    \/ Asr1kEmit

InitPairing == BuilderInit /\ NormaliseInit /\ ProcessorIdle /\ CacheIdle /\ CollectorIdle /\ ParserIdle /\ PairingInit

\* The loops are sequential code: a step that can be taken is taken.  This
\* is weak fairness of PairingNext, WF_vars(PairingNext), written out: a
\* step of PairingNext is possible exactly where pc is not "done", and each
\* such step changes vars.
PairingFairness == []<>(pc = "done") \/ []<><<PairingNext>>_vars

SpecPairing == InitPairing /\ [][PairingNext]_vars /\ PairingFairness

InitProcessor ==
    /\ BuilderInit /\ NormaliseInit /\ ProcessorInit /\ CacheIdle /\ CollectorIdle /\ ParserIdle
    /\ PowerIdle /\ family = "none" /\ pc = "idle"

SpecProcessor == InitProcessor /\ [][ProcessorNext]_vars

InitCache ==
    /\ BuilderInit /\ NormaliseInit /\ ProcessorIdle /\ CacheInit /\ CollectorIdle /\ ParserIdle
    /\ PowerIdle /\ family = "none" /\ pc = "idle"

SpecCache == InitCache /\ [][CacheNext]_vars

SpecCacheSerial == InitCache /\ [][CacheSerialNext]_vars

InitCollector ==
    /\ BuilderInit /\ NormaliseInit /\ ProcessorIdle /\ CacheIdle /\ CollectorInit /\ ParserIdle
    /\ PowerIdle /\ family = "none" /\ pc = "idle"

SpecCollector == InitCollector /\ [][CollectorNext]_vars

InitInventory ==
    /\ BuilderInit /\ NormaliseInit /\ ProcessorIdle /\ CacheIdle /\ CollectorIdle
    /\ PowerIdle /\ family = "none" /\ pc = "idle"
    /\ InventoryInit

SpecInventory == InitInventory /\ [][InventoryNext]_vars

InitMemory ==
    /\ BuilderInit /\ NormaliseInit /\ ProcessorIdle /\ CacheIdle /\ CollectorIdle
    /\ PowerIdle /\ family = "none" /\ pc = "idle"
    /\ MemoryInit

SpecMemory == InitMemory /\ [][MemoryNext]_vars

InitTemperature ==
    /\ BuilderInit /\ NormaliseInit /\ ProcessorIdle /\ CacheIdle /\ CollectorIdle
    /\ PowerIdle /\ family = "none" /\ pc = "idle"
    /\ TemperatureInit

SpecTemperature == InitTemperature /\ [][TemperatureNext]_vars

InitInterfaces ==
    /\ BuilderInit /\ NormaliseInit /\ ProcessorIdle /\ CacheIdle /\ CollectorIdle
    /\ PowerIdle /\ family = "none" /\ pc = "idle"
    /\ InterfacesInit

SpecInterfaces == InitInterfaces /\ [][InterfacesNext]_vars

(***************************************************************************)
(* Claims about the record builder and normalise().                        *)
(***************************************************************************)
ChassisComplete(poweff) ==
    /\ Len(poweff.inst) >= 1
    /\ IfKey \in DOMAIN poweff.inst[1]
    /\ Len(poweff.inst[1][IfKey].interface) >= 1
    /\ SensKey \in DOMAIN poweff.inst[1]
    /\ Len(poweff.inst[1][SensKey].sensors) >= 1

C1_RecordsComplete ==
    /\ \A i \in 1..Len(models) : ChassisComplete(models[i])
    /\ ret.kind = "models" =>
          /\ ret.value = models
          /\ Len(ret.value) >= 1

C1_EmptyListStep ==
    (/\ args'.op = "normalise"
     /\ \/ args'.interfaces = Return(<<>>)
        \/ args'.sensors = Return(<<>>))
    => (ret' = None /\ models' = models)

C2_SerialiseErrors ==
    (outcome.op = "serialise" /\ Len(assets) >= 1) =>
        LET nIf == Len(assets[1].interfaces)
            nSens == Len(assets[1].sensors)
        IN  /\ nIf = 0 => outcome.result = Raise("No Interfaces Found")
            /\ (nIf >= 1 /\ nSens = 0) =>
                   outcome.result = Raise("No Sensors Found")
            /\ outcome.result.kind = "return" <=> (nIf >= 1 /\ nSens >= 1)
            /\ outcome.result.kind = "return" =>
                   ChassisComplete(outcome.result.value)

C2_Witness ==
    /\ outcome.op = "serialise"
    /\ Len(assets) >= 1
    /\ Len(assets[1].interfaces) = 0
    /\ Len(assets[1].sensors) >= 1
    /\ outcome.result = Raise("No Interfaces Found")

\* C3: add_interface or add_sensor on a model with no asset fails: the call
\* raises, nothing is stored and the asset list stays empty.
C3_AttachBeforeAssetFails ==
    [][(assets = <<>> /\ outcome'.op \in {"add_interface", "add_sensor"})
        => /\ outcome'.result.kind = "raise"
           /\ assets' = <<>>
           /\ addedInterfaces' = addedInterfaces
           /\ addedSensors' = addedSensors]_vars

C3_Witness ==
    /\ outcome.op = "add_sensor"
    /\ outcome.result = Raise("IndexError")
    /\ assets = <<>>

\* C4: only the asset at index 0 holds interfaces and sensors: serialised,
\* every later asset carries neither collection, and the chassis collections
\* are exactly the added items in insertion order.
C4_OnlyChassisOwnsTelemetry ==
    /\ \A i \in 2..Len(assets) :
          /\ IfKey \notin DOMAIN Asset_serialise(assets[i])
          /\ SensKey \notin DOMAIN Asset_serialise(assets[i])
    /\ Len(assets) >= 1 =>
          /\ assets[1].interfaces = addedInterfaces
          /\ assets[1].sensors = addedSensors
    /\ (outcome.op = "serialise" /\ outcome.result.kind = "return") =>
          LET inst == outcome.result.value.inst
          IN  /\ \A i \in 2..Len(inst) :
                    IfKey \notin DOMAIN inst[i] /\ SensKey \notin DOMAIN inst[i]
              /\ inst[1][IfKey].interface =
                    [i \in 1..Len(addedInterfaces) |->
                        Interface_serialise(addedInterfaces[i])]
              /\ inst[1][SensKey].sensors =
                    [i \in 1..Len(addedSensors) |->
                        Sensor_serialise(addedSensors[i])]

C4_Witness ==
    /\ outcome.op = "serialise"
    /\ outcome.result.kind = "return"
    /\ Len(assets) >= 2
    /\ Len(addedInterfaces) = 2
    /\ addedInterfaces[1] # addedInterfaces[2]
    /\ Len(addedSensors) >= 1

(***************************************************************************)
(* Claims about the power strategies.                                      *)
(***************************************************************************)
Paired == family = "ASR1k" /\ pc \in {"emit", "done"}

ValueOr0(m, l) == IF l \in DOMAIN m THEN m[l] ELSE 0

\* The float total of a map pair accumulated in a given order of the keys.
RECURSIVE FloatTotal(_, _, _)
FloatTotal(vmap, imap, order) ==
    IF order = <<>> THEN 0
    ELSE LET l == order[Len(order)]
         IN  float_add(FloatTotal(vmap, imap, SubSeq(order, 1, Len(order) - 1)),
                       float_mul(ValueOr0(vmap, l), imap[l]))

\* The exact total of a map pair.
RECURSIVE ExactTotal(_, _, _)
ExactTotal(vmap, imap, keys) ==
    IF keys = {} THEN 0
    ELSE LET l == CHOOSE x \in keys : TRUE
         IN  ValueOr0(vmap, l) * imap[l] + ExactTotal(vmap, imap, keys \ {l})

Orders(S) ==
    { o \in [1..Cardinality(S) -> S] : \A a, b \in DOMAIN o : o[a] = o[b] => a = b }

Triples(vmap, imap) ==
    { [loc |-> l, v |-> ValueOr0(vmap, l), i |-> imap[l]] : l \in DOMAIN imap }

Range(q) == { q[n] : n \in DOMAIN q }

\* C5: the Pout and Pin totals, and so the emitted sensors, are the same for
\* every order in which the keys of the pairing maps are iterated.
C5_TotalsSameForEveryOrder ==
    Paired =>
        /\ \A o \in Orders(DOMAIN given.iout) :
              chassis_total_power_out = FloatTotal(given.vout, given.iout, o)
        /\ \A o \in Orders(DOMAIN given.iin) :
              chassis_total_power_in = FloatTotal(given.vin, given.iin, o)

\* What does hold whatever the order: the (location, V, I) triples
\* multiplied into each total are the same, and the totals are the exact
\* sums of their products when no float operation of the run rounded.
C5_TotalsSameUnlessRounded ==
    Paired =>
        /\ Range(out_log) = Triples(given.vout, given.iout)
        /\ Range(in_log) = Triples(given.vin, given.iin)
        /\ ~inexact =>
              /\ chassis_total_power_out =
                    ExactTotal(given.vout, given.iout, DOMAIN given.iout)
              /\ chassis_total_power_in =
                    ExactTotal(given.vin, given.iin, DOMAIN given.iin)
        /\ pc = "done" =>
              SelectSeq(sensor_data, LAMBDA x : x.name \in {"Pout", "Pin"})
                  = power_sensors(chassis_total_power_out, chassis_total_power_in)

C5_Witness ==
    /\ Paired
    /\ ~inexact
    /\ Len(out_log) = 3
    /\ \E n \in 1..2 : out_log[n].loc = "P2" /\ out_log[n + 1].loc = "P0"
    /\ \A n \in 1..3 : out_log[n].v # 0
    /\ chassis_total_power_out # 0

\* The float total of the logged triples whose location a map holds.
RECURSIVE LoggedTotal(_, _)
LoggedTotal(log, vmap) ==
    IF log = <<>> THEN 0
    ELSE LET e == log[Len(log)]
             rest == LoggedTotal(SubSeq(log, 1, Len(log) - 1), vmap)
         IN  IF e.loc \in DOMAIN vmap THEN float_add(rest, float_mul(e.v, e.i))
             ELSE rest

Restrict(m, S) == [x \in DOMAIN m \cap S |-> m[x]]

\* C6: a location with only one reading of a side adds nothing to that
\* side's total, and a voltage without its current stays in the voltage map.
C6_OneSidedAddsNothing ==
    Paired =>
        /\ chassis_total_power_out = LoggedTotal(out_log, given.vout)
        /\ chassis_total_power_in = LoggedTotal(in_log, given.vin)
        /\ \A n \in DOMAIN out_log :
              out_log[n].loc \notin DOMAIN given.vout =>
                  float_mul(out_log[n].v, out_log[n].i) = 0
        /\ \A n \in DOMAIN in_log :
              in_log[n].loc \notin DOMAIN given.vin =>
                  float_mul(in_log[n].v, in_log[n].i) = 0
        /\ vout_dict = Restrict(given.vout, DOMAIN given.vout \ DOMAIN given.iout)
        /\ vin_dict = Restrict(given.vin, DOMAIN given.vin \ DOMAIN given.iin)
        /\ \A l \in DOMAIN vout_dict : \A n \in DOMAIN out_log : out_log[n].loc # l
        /\ \A l \in DOMAIN vin_dict : \A n \in DOMAIN in_log : in_log[n].loc # l

C6_Witness ==
    /\ Paired
    /\ "P0" \in DOMAIN given.vout /\ "P0" \notin DOMAIN given.iout
    /\ "P1" \in DOMAIN given.iout /\ "P1" \notin DOMAIN given.vout
    /\ "P2" \in DOMAIN given.iout /\ "P2" \in DOMAIN given.vout
    /\ "P0" \in DOMAIN vout_dict
    /\ chassis_total_power_out = float_mul(given.vout["P2"], given.iout["P2"])

Count(log, l) == Cardinality({ n \in DOMAIN log : log[n].loc = l })

AddsTo(log, l) ==
    \E n \in DOMAIN log : log[n].loc = l /\ float_mul(log[n].v, log[n].i) # 0

\* C7 as claimed: a location is counted at most once and toward exactly one
\* of the two totals.
C7_OnceTowardOneTotal ==
    family = "ASR1k" =>
        \A l \in Locations :
            /\ Count(out_log, l) <= 1
            /\ Count(in_log, l) <= 1
            /\ ~(AddsTo(out_log, l) /\ AddsTo(in_log, l))

\* C7 as amended: a location is counted at most once toward each total, its
\* Vout x Iout product toward Pout only and its Vin x Iin product toward Pin
\* only.
C7_OncePerTotal ==
    family = "ASR1k" =>
        \A l \in Locations :
            /\ Count(out_log, l) <= 1
            /\ Count(in_log, l) <= 1
            /\ \A n \in DOMAIN out_log :
                  out_log[n].loc = l =>
                      /\ out_log[n].v = ValueOr0(given.vout, l)
                      /\ out_log[n].i = given.iout[l]
            /\ \A n \in DOMAIN in_log :
                  in_log[n].loc = l =>
                      /\ in_log[n].v = ValueOr0(given.vin, l)
                      /\ in_log[n].i = given.iin[l]

C7_Witness ==
    /\ Paired
    /\ AddsTo(out_log, "P0") /\ AddsTo(in_log, "P0")
    /\ Count(out_log, "P0") = 1 /\ Count(in_log, "P0") = 1

Named(name) == SelectSeq(sensor_data, LAMBDA x : x.name = name)

EmittedIffAtLeastOne(name, total) ==
    /\ Len(Named(name)) = (IF Abs(total) >= Units(1) THEN 1 ELSE 0)
    /\ \A n \in DOMAIN Named(name) :
          Named(name)[n] = Sensor("Chassis", name, "NA", total, "W")

\* C8: in both strategies a chassis Pout (Pin) sensor is emitted exactly when
\* the total truncated to an integer is not zero, that is when its magnitude
\* is at least 1, and it carries location Chassis, units W and the total.
C8_SensorIffTruncatedTotalNonZero ==
    pc = "done" =>
        /\ EmittedIffAtLeastOne("Pout", chassis_total_power_out)
        /\ EmittedIffAtLeastOne("Pin", chassis_total_power_in)

C8_Witness ==
    /\ pc = "done"
    /\ family = "Cat9300"
    /\ chassis_total_power_out < 0
    /\ Len(Named("Pout")) = 0
    /\ Len(Named("Pin")) = 1

C8_WitnessPairing ==
    /\ pc = "done"
    /\ family = "ASR1k"
    /\ chassis_total_power_out > 0
    /\ Len(Named("Pout")) = 0
    /\ Len(Named("Pin")) = 1

(***************************************************************************)
(* Claims about the processor.                                             *)
(***************************************************************************)
\* The reading of the last scanned sensor of a location and name.
Has(l, name) ==
    \E n \in DOMAIN scanned :
        scanned[n].sensor_location = l /\ scanned[n].sensor_name = name

Last(l, name) ==
    LET n == CHOOSE n \in DOMAIN scanned :
                 /\ scanned[n].sensor_location = l /\ scanned[n].sensor_name = name
                 /\ \A m \in DOMAIN scanned :
                       (scanned[m].sensor_location = l
                          /\ scanned[m].sensor_name = name) => m <= n
    IN  scanned[n].sensor_current_reading

HasPin(l) == Has(l, "Pin") \/ (Has(l, "Vin") /\ Has(l, "Iin"))
HasPout(l) == Has(l, "Pout") \/ (Has(l, "Vout") /\ Has(l, "Iout"))

\* Pin and Pout of a location: the product V * I where both are reported.
PinOf(l) ==
    IF Has(l, "Vin") /\ Has(l, "Iin")
    THEN (Last(l, "Vin") * Last(l, "Iin")) \div Watts(1) ELSE Last(l, "Pin")
PoutOf(l) ==
    IF Has(l, "Vout") /\ Has(l, "Iout")
    THEN (Last(l, "Vout") * Last(l, "Iout")) \div Watts(1) ELSE Last(l, "Pout")

\* e is q truncated toward zero, where q = num / den and den # 0.
IsTrunc(e, num, den) ==
    /\ Abs(e) * Abs(den) <= Abs(num)
    /\ Abs(num) < (Abs(e) + 1) * Abs(den)
    /\ e > 0 => (num > 0) = (den > 0)
    /\ e < 0 => (num > 0) # (den > 0)

RowsOf(l) == { n \in DOMAIN powers : powers[n].psuname = l }

\* C9: once process_sensors has returned, a location with exactly one of
\* Pin and Pout has one row with efficiency 88 and the other side at 88%
\* conversion, a location with both has one row with efficiency
\* trunc(Pout * 100 / Pin), or 0 when Pin is 0, and a location with neither
\* has no row.
C9_PsuEfficiency ==
    ppc \in {"rollup", "done"} =>
        \A l \in PsuLocations \cup {"Chassis"} :
            /\ Cardinality(RowsOf(l)) = (IF HasPin(l) \/ HasPout(l) THEN 1 ELSE 0)
            /\ \A n \in RowsOf(l) :
                  LET d == powers[n]
                  IN  /\ HasPin(l) /\ ~HasPout(l) =>
                            /\ d.power_efficiency = 88
                            /\ d.power_in = PinOf(l)
                            /\ d.power_out * 100 = 88 * d.power_in
                      /\ HasPout(l) /\ ~HasPin(l) =>
                            /\ d.power_efficiency = 88
                            /\ d.power_out = PoutOf(l)
                            /\ d.power_in * 88 = 100 * d.power_out
                      /\ HasPin(l) /\ HasPout(l) =>
                            /\ d.power_in = PinOf(l)
                            /\ d.power_out = PoutOf(l)
                            /\ IF d.power_in = 0 THEN d.power_efficiency = 0
                               ELSE IsTrunc(d.power_efficiency,
                                            d.power_out * 100, d.power_in)

C9_Witness ==
    /\ ppc = "rollup"
    /\ Len(powers) = 2
    /\ \E n \in DOMAIN powers :
          /\ powers[n].psuname = "PS1"
          /\ powers[n].power_in = Watts(300)
          /\ powers[n].power_out = Watts(264)
          /\ powers[n].power_efficiency = 88
    /\ \E n \in DOMAIN powers :
          /\ powers[n].psuname = "PS0"
          /\ powers[n].power_in = Watts(300)
          /\ powers[n].power_out = Watts(-1)
          /\ powers[n].power_efficiency = 0

C9_WitnessPoutOnly ==
    /\ ppc = "rollup"
    /\ \E n \in DOMAIN powers :
          /\ powers[n].power_out = Watts(48)
          /\ powers[n].power_in * 88 = Watts(4800)
          /\ powers[n].power_efficiency = 88
    /\ Has("PS0", "Vin") /\ ~HasPin("PS0")

\* C10: the handling of a poll never ends in a division error, and in the
\* metrics record it writes each ratio is 0 when its denominator is 0,
\* whatever power_in is, and the truncated quotient otherwise.
C10_RatiosDefined ==
    /\ proc_outcome # Raise("ZeroDivisionError")
    /\ ppc # "crashed"
    /\ ppc = "done" =>
          /\ metrics = proc_outcome.value
          /\ IF metrics.power_in = 0 THEN metrics.power_efficiency = 0
             ELSE IsTrunc(metrics.power_efficiency,
                          metrics.power_out * 100, metrics.power_in)
          /\ IF metrics.power_available = 0 THEN metrics.power_utilization = 0
             ELSE IsTrunc(metrics.power_utilization,
                          metrics.power_in * 100, Watts(metrics.power_available))
          /\ IF metrics.traffic_in + metrics.traffic_out = 0
             THEN metrics.traffic_efficiency = 0
             ELSE IsTrunc(metrics.traffic_efficiency, metrics.power_in * 1000,
                          Watts((metrics.traffic_in + metrics.traffic_out) \div 1000))

C10_Witness ==
    /\ ppc = "done"
    /\ metrics.power_in = Watts(600)
    /\ metrics.power_available = 0
    /\ metrics.power_utilization = 0
    /\ metrics.traffic_in + metrics.traffic_out = 0
    /\ metrics.traffic_efficiency = 0

C10_WitnessZeroPowerIn ==
    /\ ppc = "done"
    /\ Len(powers) = 1
    /\ metrics.power_in = 0
    /\ metrics.power_out # 0
    /\ metrics.power_efficiency = 0
    /\ metrics.power_available # 0
    /\ metrics.traffic_efficiency = 0
    /\ metrics.traffic_in # 0

SeverityWords == {"Unknown", "Normal", "Warning", "Critical"}

Severity(word) ==
    CASE word = "Unknown" -> -1 [] word = "Normal" -> 0
      [] word = "Warning" -> 1 [] word = "Critical" -> 2

\* The severities of the Celsius sensors scanned so far whose state is a
\* severity word.
SeveritiesSeen ==
    { Severity(scanned[n].sensor_state) :
        n \in { m \in DOMAIN scanned :
                  /\ scanned[m].sensor_units = "Celsius"
                  /\ scanned[m].sensor_state \in SeverityWords } }

MaxOf(S) == CHOOSE x \in S : \A y \in S : y <= x

C11_MaxSeverity ==
    vitals.temperature = (IF SeveritiesSeen = {} THEN -1 ELSE MaxOf(SeveritiesSeen))

C11_NeverDecreases == vitals'.temperature >= vitals.temperature

\* C11: the temperature status is the maximum severity over the Celsius
\* sensors with a known severity word, whatever their order, -1 when there
\* is none, it never decreases during the scan, and an unrecognised state
\* word does not raise it; the metrics record carries that status.
C11_TemperatureIsMaxSeverity ==
    /\ [](C11_MaxSeverity)
    /\ [][C11_NeverDecreases]_vars
    /\ [](ppc = "done" => metrics.temperature = vitals.temperature)

C11_Witness ==
    /\ ppc = "done"
    /\ Len(scanned) = 3
    /\ scanned[1].sensor_state = "Critical" /\ scanned[1].sensor_units = "Celsius"
    /\ scanned[2].sensor_state = "GREEN"
    /\ scanned[3].sensor_state = "Normal"
    /\ metrics.temperature = 2

C11_WitnessUnrecognised ==
    /\ ppc = "done"
    /\ Len(scanned) = 2
    /\ scanned[1].sensor_state = "GREEN"
    /\ scanned[2].sensor_units = "Fahrenheit"
    /\ metrics.temperature = -1

\* The available power the claim gives a row: the table value if the table
\* has the product id, else the kilowatt rating, else the watt rating, else 0.
RowRating(pid) ==
    IF pid \in DOMAIN psu_avl THEN psu_avl[pid]
    ELSE IF kw_rating(pid) # 0 THEN kw_rating(pid)
    ELSE w_rating(pid)

RECURSIVE SumOfRatings(_)
SumOfRatings(pids) ==
    IF pids = <<>> THEN 0 ELSE RowRating(Head(pids)) + SumOfRatings(Tail(pids))

\* C12: process_psus returns the sum over every asset row of the row's
\* available power: the table value if the product id has one, else the
\* kilowatt rating, else the watt rating, else 0.
C12_SumOfRowRatings ==
    ppc = "done" => metrics.power_available = SumOfRatings(db.assets)

C12_Witness ==
    /\ ppc = "done"
    /\ db.assets = << "ASR1001-X", "PWR-C1-350WAC" >>
    /\ metrics.power_available = 350

C12_WitnessDuplicates ==
    /\ ppc = "done"
    /\ Len(db.assets) = 5
    /\ metrics.power_available = 598 + 598 + 400 + 3000

\* C13: the co2_intensity of the metrics record is the value of the live
\* lookup whenever it returned one, whatever the value, else the site's
\* configured average if it has one, else 0.
C13_Co2Preference ==
    ppc = "done" =>
        metrics.co2_intensity =
            (IF task.co2_intensity.bound THEN task.co2_intensity.value
             ELSE IF task.site_average.bound THEN task.site_average.value
             ELSE 0)

C13_Witness ==
    /\ ppc = "done"
    /\ task.co2_intensity = Bound(0)
    /\ task.site_average = Bound(300)
    /\ metrics.co2_intensity = 300

C13_WitnessFallback ==
    /\ ppc = "done"
    /\ task.co2_intensity = Unbound
    /\ task.site_average = Unbound
    /\ metrics.co2_intensity = 0

(***************************************************************************)
(* Claims about the carbon-intensity cache.                                *)
(***************************************************************************)
\* C14: for one (lat, long), no two external lookups are issued less than
\* one TTL apart, whether the calls overlap or follow one another.
C14_OneLookupPerWindow ==
    \A i, j \in 1..Len(requests) :
        (i < j /\ requests[i].key = requests[j].key)
            => requests[j].at - requests[i].at >= TTL

\* Two lookups for one key at the same second, with every call finished.
C14_Witness ==
    /\ Len(requests) >= 2
    /\ requests[1].key = requests[2].key
    /\ requests[2].at - requests[1].at < TTL
    /\ \A c \in Callers : cpc[c] = "idle"

\* A second call inside the window that is served from the cache.
C14_WitnessServed ==
    \E c \in Callers :
        /\ cret[c].how = "cached"
        /\ Len(requests) = 1
        /\ calls = 2

(***************************************************************************)
(* Claims about the derivation as a whole.                                 *)
(***************************************************************************)
C15_SameMetrics == ppc = "rederived" => metrics_again = Return(metrics)

\* The record is what the scan read and what main read besides.
C15_RecordUntouched ==
    /\ ppc # "scan" => scanned' = scanned
    /\ ppc \in {"done", "rederived"} => task' = task

C16_LoopSurvives == lpc # "terminated"

\* A task for a family without a normaliser has ended main before anything
\* was published and with a task budget left.
C16_Witness ==
    /\ lpc = "terminated"
    /\ lexc = "AttributeError"
    /\ ltask.family = "Nexus9k"
    /\ consumed < MaxTasks
    /\ published = <<>>

\* The failures the loop does contain: a task whose connection or commands
\* failed is skipped and the next one is consumed.
C16_WitnessAbandoned ==
    /\ abandoned = <<1>>
    /\ consumed = 2
    /\ published = <<>>
    /\ lpc = "connect"

(***************************************************************************)
(* Claims about the textfsm parsers.                                       *)
(***************************************************************************)
\* The sentinel rule as the specification words it.
NotApplicable(text) == str_lower(str_strip(text)) \in { << "n", "/", "a" >>, <<>> }
SentinelOrTrimmed(text) ==
    IF NotApplicable(text) THEN << "N", "A" >> ELSE str_strip(text)

\* C17: every parsed asset has serial 'NA' when the row's SN is blank or
\* 'N/A' in any letter case and the trimmed SN otherwise, and the same for
\* vid and VID.
C17_SentinelRule ==
    fpc \in {"inventory", "returned"} =>
        \A n \in 1..Len(data_built) :
            /\ data_built[n].serial = SentinelOrTrimmed(tokenized[n].SN)
            /\ data_built[n].vid = SentinelOrTrimmed(tokenized[n].VID)

\* A row with SN 'N/A' and a blank VID has been parsed: the blank became
\* the sentinel, the marker did not.
C17_Witness ==
    /\ fpc = "returned"
    /\ Len(data_built) = 1
    /\ tokenized[1].SN = << "N", "/", "A" >>
    /\ tokenized[1].VID = << " " >>
    /\ data_built[1].serial = << "N", "/", "A" >>
    /\ data_built[1].vid = << "N", "A" >>

\* Surrounding blanks are trimmed from a serial that is kept.
C17_WitnessTrimmed ==
    /\ fpc = "returned"
    /\ Len(data_built) = 2
    /\ tokenized[2].SN = << " ", "F", "O", "C", "1", " " >>
    /\ data_built[2].serial = << "F", "O", "C", "1" >>

\* The first row has three integer tokens.
IntegerTokens ==
    /\ Len(tokenized) >= 1
    /\ tokenized[1].mem_total.bound
    /\ tokenized[1].mem_used.bound
    /\ tokenized[1].mem_free.bound

MemoryDifference ==
    Abs(tokenized[1].mem_free.value + tokenized[1].mem_used.value
            - tokenized[1].mem_total.value)

\* C18: for integer tokens the parser returns one Memory sensor, reading
\* 100 * used / total rounded to two decimals, exactly when
\* |free + used - total| <= 10, and the empty list when it is larger.
C18_AcceptedIffWithinTolerance ==
    (fpc = "returned" /\ IntegerTokens) =>
        IF MemoryDifference <= 10
        THEN /\ fret.kind = "return"
             /\ Len(fret.value) = 1
             /\ fret.value[1].name = "Memory"
        ELSE fret = Return(<<>>)

\* total 0 with used 1 and free 2 is within the tolerance and has no
\* sensor: the division raised.
C18_Witness ==
    /\ fpc = "returned"
    /\ IntegerTokens
    /\ tokenized[1].mem_total.value = 0
    /\ MemoryDifference <= 10
    /\ fret = Raise("ZeroDivisionError")

\* The two examples: {1000, 400, 601} gives 40.0, {1000, 400, 550} nothing.
C18_WitnessAccepted ==
    /\ fpc = "returned"
    /\ tokenized = << [mem_total |-> Bound(1000), mem_used |-> Bound(400),
                       mem_free |-> Bound(601)] >>
    /\ fret.kind = "return"
    /\ Len(fret.value) = 1
    /\ fret.value[1].reading = 4000

C18_WitnessRejected ==
    /\ fpc = "returned"
    /\ tokenized = << [mem_total |-> Bound(1000), mem_used |-> Bound(400),
                       mem_free |-> Bound(550)] >>
    /\ fret = Return(<<>>)

\* Apart from a total of 0 the rule is as stated.
C18_ExceptZeroTotal ==
    (fpc = "returned" /\ IntegerTokens /\ tokenized[1].mem_total.value # 0) =>
        IF MemoryDifference <= 10
        THEN /\ fret.kind = "return"
             /\ Len(fret.value) = 1
             /\ fret.value[1].name = "Memory"
             /\ 100 * fret.value[1].reading * tokenized[1].mem_total.value
                    - 1000000 * tokenized[1].mem_used.value
                        \in -50 * tokenized[1].mem_total.value
                                ..50 * tokenized[1].mem_total.value
        ELSE fret = Return(<<>>)

\* The rows of the input that pass the filter, in row order.
PassingRows == SelectSeq(tokenized, passes)

\* C19: the parser returns one Temp sensor per passing row, in row order:
\* as many sensors as passing rows, and the empty list when there is none.
C19_OneSensorPerPassingRow ==
    fpc = "returned" =>
        /\ fret.kind = "return"
        /\ Len(fret.value) = Len(PassingRows)
        /\ \A n \in 1..Len(PassingRows) :
               /\ fret.value[n].name = "Temp"
               /\ fret.value[n].location = PassingRows[n].SENSOR
               /\ fret.value[n].reading = PassingRows[n].READING.value

\* Two passing rows, one sensor: the one of the last row.
C19_Witness ==
    /\ fpc = "returned"
    /\ Len(PassingRows) = 2
    /\ PassingRows[1].State # PassingRows[2].State
    /\ fret.kind = "return"
    /\ Len(fret.value) = 1
    /\ fret.value[1].state = state_of(PassingRows[2].State)

\* No passing row: the append reads a local that was never bound.
C19_WitnessNoPassingRow ==
    /\ fpc = "returned"
    /\ Len(tokenized) = 2
    /\ Len(PassingRows) = 0
    /\ fret = Raise("UnboundLocalError")

\* The state mapping as the specification words it.
MappedState(text) ==
    LET t == str_strip(str_lower(text))
    IN  IF t \in { << "n", "o", "r", "m", "a", "l" >>, << "g", "o", "o", "d" >>,
                   << "g", "r", "e", "e", "n" >> }
        THEN << "N", "o", "r", "m", "a", "l" >>
        ELSE IF t = << "y", "e", "l", "l", "o", "w" >>
        THEN << "W", "a", "r", "n", "i", "n", "g" >>
        ELSE IF t = << "r", "e", "d" >>
        THEN << "C", "r", "i", "t", "i", "c", "a", "l" >>
        ELSE text

\* The passing rows among those iterated so far.
PassedSoFar == SelectSeq(SubSeq(tokenized, 1, rows_done), passes)

\* C20: the state of the sensor built from an inlet row is Normal for
\* normal/good/green, Warning for yellow, Critical for red (trimmed, in any
\* letter case) and the row's own text for anything else.
C20_StateMapping ==
    (fpc \in {"temperature", "returned"} /\ sensor_temperature.bound) =>
        sensor_temperature.value.state
            = MappedState(PassedSoFar[Len(PassedSoFar)].State)

\* An inlet row with an empty state has been returned as Warning.
C20_Witness ==
    /\ fpc = "returned"
    /\ Len(tokenized) = 1
    /\ tokenized[1].State = <<>>
    /\ fret.kind = "return"
    /\ fret.value[1].state = << "W", "a", "r", "n", "i", "n", "g" >>

\* The words themselves and an unrelated text are mapped as stated.
C20_WitnessMapped ==
    /\ fpc = "returned"
    /\ Len(tokenized) = 1
    /\ tokenized[1].State \in { << " ", "g", "r", "e", "e", "n", " " >>,
                                << "R", "e", "d" >>,
                                << "F", "a", "u", "l", "t", "y" >> }
    /\ fret.kind = "return"
    /\ fret.value[1].state = MappedState(tokenized[1].State)

(***************************************************************************)
(* Claims about the Cat9300 power parsing.                                 *)
(***************************************************************************)
\* What a row adds to the total of the keyword kw when rows without a
\* numeric reading add nothing: its reading, divided by 1000 for mW, if it
\* is a numeric W or mW row of that keyword.
RowShare(sensor, kw) ==
    LET is_in == "powin" \in sensor.SENSOR
        is_out == ~is_in /\ "powout" \in sensor.SENSOR
    IN  IF ~sensor.READING.numeric \/ units_kind(sensor.UNITS) = "other" THEN 0
        ELSE IF (kw = "powin" /\ ~is_in) \/ (kw = "powout" /\ ~is_out) THEN 0
        ELSE IF units_kind(sensor.UNITS) = "mw"
        THEN float_div_1000(sensor.READING.value)
        ELSE sensor.READING.value

\* The total of the numeric rows alone, accumulated in row order.
RECURSIVE NumericTotal(_, _)
NumericTotal(rows, kw) ==
    IF rows = <<>> THEN 0
    ELSE float_add(NumericTotal(SubSeq(rows, 1, Len(rows) - 1), kw),
                   RowShare(rows[Len(rows)], kw))

\* C21: in the Cat9300 power parsing a row without a numeric reading adds
\* nothing to either chassis total and does not end the parse: the totals
\* are those of the numeric W and mW rows, each with its own reading.
C21_NonNumericDropped ==
    family = "Cat9300" =>
        /\ pc # "raised"
        /\ chassis_total_power_in = NumericTotal(iterated, "powin")
        /\ chassis_total_power_out = NumericTotal(iterated, "powout")

\* A non-numeric powin row in W after a numeric one: the reading of the
\* row before it was added a second time.
C21_Witness ==
    /\ family = "Cat9300"
    /\ pc = "done"
    /\ iterated = << [SENSOR |-> {"powin"}, READING |-> Numeric(4), UNITS |-> "W"],
                     [SENSOR |-> {"powin"}, READING |-> NonNumeric, UNITS |-> "W"] >>
    /\ chassis_total_power_in = 8

\* A non-numeric row first: the parse ends in an exception.
C21_WitnessRaised ==
    /\ family = "Cat9300"
    /\ pc = "raised"
    /\ Len(iterated) = 1
    /\ ~iterated[1].READING.numeric

\* A non-numeric row in other units is dropped as stated.
C21_WitnessSkipped ==
    /\ family = "Cat9300"
    /\ pc = "done"
    /\ Len(iterated) = 2
    /\ iterated[1] = [SENSOR |-> {"powin"}, READING |-> NonNumeric, UNITS |-> "Celsius"]
    /\ iterated[2].READING.numeric
    /\ chassis_total_power_in = NumericTotal(iterated, "powin")
    /\ chassis_total_power_in # 0

(***************************************************************************)
(* Claims about _parse_interfaces.                                         *)
(***************************************************************************)
\* The rows iterated so far that the filters let through, by the names and
\* link states of the input domain: the three physical names, link "up".
PhysicalUp(token) ==
    /\ token.INTERFACE \in {Gi000, Gi001, <<"M", "g", "m", "t", "E", "t", "h", "0">>}
    /\ token.LINK_STATUS = <<"u", "p">>

SurvivingRows == SelectSeq(SubSeq(tokenized, 1, rows_done), PhysicalUp)

InterfacesParsing == fpc \in {"interfaces", "returned"} /\ tokenized_snmp_interface \in SnmpTables

\* The five fields of a row when every one of them parses.
AllParse(token) ==
    /\ token.INPUT_RATE_PPS.bound /\ token.INPUT_RATE_BPS.bound
    /\ token.OUTPUT_RATE_PPS.bound /\ token.OUTPUT_RATE_BPS.bound
    /\ first_int(token.LOAD_INTERVAL_INPUT).bound

Seconds(raw) ==
    IF raw = <<"5", " ", "m", "i", "n", "u", "t", "e">> THEN 300 ELSE IF raw = <<"3", "0", " ", "s", "e", "c", "o", "n", "d", "s">> THEN 30 ELSE 0

RatesOf(e) ==
    << e.input_packet_rate, e.input_data_rate, e.output_packet_rate,
       e.output_data_rate, e.data_rate_frequency >>

\* C22: the four rate counters and the sampling interval of every emitted
\* interface are either all parsed (bit rates in kbps, the interval in
\* seconds) or, when one of them does not parse, all 0.
C22_RateGroupAtomic ==
    (InterfacesParsing /\ Len(data_built) = Len(SurvivingRows)) =>
        \A n \in 1..Len(data_built) :
            LET token == SurvivingRows[n]
            IN  RatesOf(data_built[n]) =
                    IF AllParse(token)
                    THEN << token.INPUT_RATE_PPS.value,
                            token.INPUT_RATE_BPS.value \div 1000,
                            token.OUTPUT_RATE_PPS.value,
                            token.OUTPUT_RATE_BPS.value \div 1000,
                            Seconds(token.LOAD_INTERVAL_INPUT) >>
                    ELSE << 0, 0, 0, 0, 0 >>

\* A row whose output bit rate does not parse, after its input counters
\* did: all five fields are 0.
C22_Witness ==
    /\ fpc = "returned"
    /\ Len(tokenized) = 1
    /\ tokenized[1].INPUT_RATE_PPS = Bound(5)
    /\ ~tokenized[1].OUTPUT_RATE_BPS.bound
    /\ Len(fret.value) = 1
    /\ RatesOf(fret.value[1]) = << 0, 0, 0, 0, 0 >>

\* A row where all five parse: 2999 bit/s is 2 kbps, 5 minutes are 300 s.
C22_WitnessParsed ==
    /\ fpc = "returned"
    /\ tokenized = << PlainRow >>
    /\ RatesOf(fret.value[1]) = << 5, 2, 7, 4, 300 >>

\* The IFINDEX of the first SNMP row with exactly this name, else "".
FirstIndex(name) ==
    LET matches == SelectSeq(tokenized_snmp_interface, LAMBDA r : r.IFNAME = name)
    IN  IF matches = <<>> THEN "" ELSE matches[1].IFINDEX

\* C23: the interfaces built are the physical rows whose link status
\* contains 'up', in their order; the other rows are dropped and nothing is
\* raised; the if-index of each is that of the first SNMP row with an equal
\* name, or the empty string.
C23_KeptRowsInOrder ==
    InterfacesParsing =>
        /\ fret.kind # "raise"
        /\ fpc = "returned" => fret = Return(data_built)
        /\ Len(data_built) = Len(SurvivingRows)
        /\ \A n \in 1..Len(data_built) :
               /\ data_built[n].name = SurvivingRows[n].INTERFACE
               /\ data_built[n].if_index = FirstIndex(data_built[n].name)

\* A loopback row dropped, a port kept with the first of two indexes.
C23_Witness ==
    /\ fpc = "returned"
    /\ Len(tokenized) = 2
    /\ tokenized[1].INTERFACE = <<"L", "o", "o", "p", "b", "a", "c", "k", "0">>
    /\ tokenized[2].INTERFACE = Gi000
    /\ Len(tokenized_snmp_interface) = 2
    /\ Len(fret.value) = 1
    /\ fret.value[1].if_index = "1"

\* A port that is down is dropped; a name that differs in case from the
\* SNMP row does not match it.
C23_WitnessNoMatch ==
    /\ fpc = "returned"
    /\ Len(tokenized) = 2
    /\ tokenized[1].LINK_STATUS = <<"d", "o", "w", "n">>
    /\ tokenized[2].INTERFACE = <<"M", "g", "m", "t", "E", "t", "h", "0">>
    /\ Len(tokenized_snmp_interface) = 2
    /\ Len(fret.value) = 1
    /\ fret.value[1].if_index = ""

\* The speed as the specification words it: the first integer scaled by
\* the unit found in the text in any letter case, else the raw text.
ScaledSpeed(raw) ==
    LET n == first_int(raw)
        low == str_lower(raw)
    IN  IF n.bound /\ str_in(<<"k", "b">>, low) THEN SpeedNumber(n.value)
        ELSE IF n.bound /\ str_in(<<"m", "b">>, low) THEN SpeedNumber(n.value * 1000)
        ELSE IF n.bound /\ str_in(<<"g", "b">>, low) THEN SpeedNumber(n.value * 1000000)
        ELSE SpeedText(raw)

\* C25: the speed of every emitted interface is the first integer of the
\* speed text times 1, 1000 or 1000000 for kb, mb or gb in any letter case,
\* and the raw text when there is no such unit.
C25_SpeedScaled ==
    (InterfacesParsing /\ Len(data_built) = Len(SurvivingRows)) =>
        \A n \in 1..Len(data_built) :
            data_built[n].speed = ScaledSpeed(SurvivingRows[n].SPEED)

\* '10GB' is returned as text.
C25_Witness ==
    /\ fpc = "returned"
    /\ Len(tokenized) = 1
    /\ tokenized[1].SPEED = <<"1", "0", "G", "B">>
    /\ fret.value[1].speed = SpeedText(<<"1", "0", "G", "B">>)

\* '10 Gb/s' is 10000000, '1000Mb/s' is 1000000, 'auto-speed' is kept.
C25_WitnessScaled ==
    /\ fpc = "returned"
    /\ Len(tokenized) = 2
    /\ tokenized[1].SPEED = <<"1", "0", " ", "G", "b", "/", "s">>
    /\ tokenized[2].SPEED = <<"a", "u", "t", "o", "-", "s", "p", "e", "e", "d">>
    /\ fret.value[1].speed = SpeedNumber(10000000)
    /\ fret.value[2].speed = SpeedText(<<"a", "u", "t", "o", "-", "s", "p", "e", "e", "d">>)

(***************************************************************************)
(* C24: the chassis traffic totals and the per-interface metrics.          *)
(***************************************************************************)
\* The names of the record's interfaces that the pattern matches, as
\* re.search gives them: a loopback, a lower-case vlan, a sub-interface
\* and a name that starts with PO.
VirtualNames ==
    { <<"L", "o", "o", "p", "b", "a", "c", "k", "0">>, <<"v", "l", "a", "n", "1", "0">>,
      <<"G", "i", "g", "a", "b", "i", "t", "E", "t", "h", "e", "r", "n", "e", "t", "0", "/", "0", "/", "1", ".", "1", "0", "0">>, <<"P", "O", "S", "0", "/", "1", "/", "0">> }

\* The positions of the record's interfaces that count.
Counted(interface) ==
    { n \in 1..Len(interface) :
        interface[n].name \notin VirtualNames /\ interface[n].bandwidth # 0 }

RECURSIVE RateSum(_, _, _)
RateSum(interface, positions, field) ==
    IF positions = {} THEN 0
    ELSE LET n == CHOOSE m \in positions : TRUE
         IN  interface[n][field] + RateSum(interface, positions \ {n}, field)

PollHandled == ppc \in {"done", "rederived"}

\* C24: traffic_in and traffic_out of the chassis are the sums of the input
\* and output data rates over exactly the interfaces of the record whose
\* name does not match the pattern and whose bandwidth is not zero; the
\* per-interface metrics written are those interfaces in their order, each
\* with a defined utilization.
C24_TrafficOverCountedInterfaces ==
    PollHandled =>
        LET counted == Counted(task.interface)
        IN  /\ metrics.traffic_in = RateSum(task.interface, counted, "input_data_rate")
            /\ metrics.traffic_out = RateSum(task.interface, counted, "output_data_rate")
            /\ Len(db.ifmetrics) = Cardinality(counted)
            /\ \A r \in 1..Len(db.ifmetrics) :
                  /\ \E n \in counted :
                        /\ db.ifmetrics[r].ifname = task.interface[n].name
                        /\ db.ifmetrics[r].traffic_in = task.interface[n].input_data_rate
                        /\ db.ifmetrics[r].traffic_out = task.interface[n].output_data_rate
                        /\ Cardinality({m \in counted : m < n}) = r - 1
                  /\ db.ifmetrics[r].utilization.kind = "return"

\* A sub-interface and a PO name are left out, one port counts.
C24_Witness ==
    /\ ppc = "done"
    /\ Len(task.interface) = 3
    /\ task.interface[1].name = <<"G", "i", "g", "a", "b", "i", "t", "E", "t", "h", "e", "r", "n", "e", "t", "0", "/", "0", "/", "1", ".", "1", "0", "0">>
    /\ task.interface[3].name = <<"P", "O", "S", "0", "/", "1", "/", "0">>
    /\ metrics.traffic_in = 400000
    /\ metrics.traffic_out = 100000
    /\ Len(db.ifmetrics) = 1
    /\ db.ifmetrics[1].ifname = <<"G", "i", "g", "a", "b", "i", "t", "E", "t", "h", "e", "r", "n", "e", "t", "0", "/", "0", "/", "2">>

\* A port of zero bandwidth and a lower-case vlan: no metric, totals 0.
C24_WitnessZeroBandwidth ==
    /\ ppc = "done"
    /\ task.interface[2].bandwidth = 0
    /\ task.interface[2].input_data_rate = 7000
    /\ task.interface[3].name = <<"v", "l", "a", "n", "1", "0">>
    /\ metrics.traffic_in = 0
    /\ metrics.traffic_out = 0
    /\ db.ifmetrics = <<>>

(***************************************************************************)
(* C26: an inventory of no rows.                                           *)
(***************************************************************************)
C26_AfterCall ==
    args.op = "normalise" /\ args.site =>
        IF args.inventory = <<>>
        THEN /\ args.asset_data = <<>>
             /\ args.ran = <<"_parse_assets">>
             /\ ret = None
        ELSE /\ Len(args.asset_data) = Len(args.inventory)
             /\ \A i \in 1..Len(args.inventory) :
                    args.asset_data[i].pid = args.inventory[i]
             /\ ret # None =>
                    /\ Len(models[Len(models)].inst) = Len(args.inventory)
                    /\ \A i \in 1..Len(args.inventory) :
                           models[Len(models)].inst[i].id = args.inventory[i]

C26_EmptyInventoryStep ==
    (args'.op = "normalise" /\ args'.site /\ args'.inventory = <<>>)
    => models' = models

\* C26: when the inventory has no rows, _parse_assets returns an empty
\* list and normalise() returns None having called neither the interface
\* nor the sensor parser, and leaves its models as they were; with one row
\* or more, the assets are one per row in the order of the rows.
C26_EmptyInventoryAborts ==
    [](C26_AfterCall) /\ [][C26_EmptyInventoryStep]_vars

\* No inventory rows while the interface and sensor outputs would parse,
\* on a normaliser that already holds a record.
C26_Witness ==
    /\ args.op = "normalise"
    /\ args.site
    /\ args.inventory = <<>>
    /\ args.interfaces.kind = "return" /\ Len(args.interfaces.value) = 2
    /\ args.sensors.kind = "return" /\ Len(args.sensors.value) = 2
    /\ args.ran = <<"_parse_assets">>
    /\ ret = None
    /\ Len(models) = 1

\* Two inventory rows become two assets in their order.
C26_WitnessRows ==
    /\ args.op = "normalise"
    /\ args.inventory = <<"ASR1001-X", "ASR1000-PWR-AC">>
    /\ Len(args.ran) = 3
    /\ ret # None
    /\ models[Len(models)].inst[1].id = "ASR1001-X"
    /\ models[Len(models)].inst[2].id = "ASR1000-PWR-AC"

(***************************************************************************)
(* C27: the batches of one task.                                           *)
(***************************************************************************)
\* The messages published for the task in hand, in their order.
MessagesOfTask == SelectSeq(published, LAMBDA m : m.task = consumed)

RECURSIVE Concatenation(_)
Concatenation(messages) ==
    IF messages = <<>> THEN <<>>
    ELSE Concatenation(SubSeq(messages, 1, Len(messages) - 1))
            \o messages[Len(messages)].poweff

\* ceil(n / size)
CeilQuot(n, size) == (n + size - 1) \div size

\* The task in hand has gone through the whole of its batch loop.
BatchLoopDone ==
    /\ lpc = "consume"
    /\ consumed >= 1
    /\ get_normaliser(ltask.connection, ltask.family) # "None"
    /\ ltask.connects
    /\ ltask.command_data # "None"
    /\ ltask.poweff_data.kind = "list"

\* C27: the messages of a task hold its records in ascending index order,
\* at most batch_size each, and once its loop is over there are
\* ceil(n / batch_size) of them whose record lists, put end to end, are the
\* list normalise() returned.
C27_BatchesPartitionTheList ==
    /\ \A k \in 1..Len(MessagesOfTask) :
          /\ MessagesOfTask[k].index = (k - 1) * batch_size
          /\ Len(MessagesOfTask[k].poweff) \in 1..batch_size
    /\ Concatenation(MessagesOfTask)
          = SubSeq(poweff_list(ltask.poweff_data.n), 1,
                   Len(Concatenation(MessagesOfTask)))
    /\ BatchLoopDone =>
          /\ Len(MessagesOfTask) = CeilQuot(ltask.poweff_data.n, batch_size)
          /\ Concatenation(MessagesOfTask) = poweff_list(ltask.poweff_data.n)

\* Three records in batches of two: a full message and one of one record.
C27_Witness ==
    /\ BatchLoopDone
    /\ batch_size = 2
    /\ ltask.poweff_data.n = 3
    /\ Len(MessagesOfTask) = 2
    /\ MessagesOfTask[1].poweff = <<1, 2>>
    /\ MessagesOfTask[2].poweff = <<3>>
    /\ MessagesOfTask[2].index = 2

\* Three records in one message when the batch size exceeds the list.
C27_WitnessOneMessage ==
    /\ BatchLoopDone
    /\ batch_size = 10
    /\ ltask.poweff_data.n = 3
    /\ Len(MessagesOfTask) = 1
    /\ MessagesOfTask[1].poweff = <<1, 2, 3>>

(***************************************************************************)
(* C28: the device session of a task.                                      *)
(***************************************************************************)
\* Where the session of the task in hand has to be over: while its data is
\* normalised and published, and when the next task is awaited and read.
SessionOver ==
    lpc \in {"normalise", "publish", "consume", "get_commands"} =>
        /\ connection.session = "closed"
        /\ connection.handle = "None"
        /\ execute(connection, "results") = "None"

\* execute is called with the session open.
ExecuteOnOpenSession ==
    lpc = "execute" => connection.handle = "device" /\ connection.session = "open"

\* C28: a session that was opened is disconnected before normalisation
\* starts and before the next task is consumed, also when the commands gave
\* nothing; execute is only called on a connected session; and after the
\* disconnect the handle is None, so that a further execute returns None.
C28_SessionClosedInTime == SessionOver /\ ExecuteOnOpenSession

\* The second task is awaited after a first one whose session was opened
\* and whose commands gave nothing.
C28_Witness ==
    /\ lpc = "consume"
    /\ consumed = 1
    /\ ltask.connects
    /\ ltask.command_data = "None"
    /\ abandoned = <<1>>
    /\ connection = [handle |-> "None", session |-> "closed"]

\* Normalisation is about to start on the results of a closed session.
C28_WitnessNormalise ==
    /\ lpc = "normalise"
    /\ ltask.connects
    /\ ltask.command_data = "results"
    /\ connection.session = "closed"
    /\ execute(connection, "results") = "None"

(***************************************************************************)
(* C29: the two draining loops of _generate_chassis_power_from_vi.         *)
(***************************************************************************)
Keys(m) == DOMAIN m

\* What is left of a voltage map: the keys without a current key, with
\* their readings.
Unmatched(vmap, imap) == [x \in Keys(vmap) \ Keys(imap) |-> vmap[x]]

C29_Progress ==
    /\ pc = "iout_loop" =>
          /\ Len(out_log) + Len(iout_dict) = Cardinality(Keys(given.iout))
          /\ in_log = <<>>
    /\ pc = "iin_loop" =>
          /\ iout_dict = <<>>
          /\ Len(out_log) = Cardinality(Keys(given.iout))
          /\ vout_dict = Unmatched(given.vout, given.iout)
          /\ Len(in_log) + Len(iin_dict) = Cardinality(Keys(given.iin))
    /\ (family = "ASR1k" /\ pc \in {"emit", "done"}) =>
          /\ iout_dict = <<>> /\ iin_dict = <<>>
          /\ Len(out_log) = Cardinality(Keys(given.iout))
          /\ Len(in_log) = Cardinality(Keys(given.iin))
          /\ vout_dict = Unmatched(given.vout, given.iout)
          /\ vin_dict = Unmatched(given.vin, given.iin)

\* An iteration removes the first key of the current dict and no other.
C29_Iteration ==
    /\ (pc = "iout_loop" /\ pc' = "iout_loop") =>
          /\ iout_dict # <<>>
          /\ iout_dict' = Tail(iout_dict)
          /\ iin_dict' = iin_dict
    /\ (pc = "iin_loop" /\ pc' = "iin_loop") =>
          /\ iin_dict # <<>>
          /\ iin_dict' = Tail(iin_dict)
          /\ iout_dict' = iout_dict

\* C29: _generate_chassis_power_from_vi terminates: each iteration removes
\* exactly one key from the current dict under way, the Iout loop ends
\* after |Iout| iterations and the Iin loop after |Iin|, both dicts end
\* empty and Vout and Vin keep exactly the keys without a current key.
C29_LoopsTerminate ==
    /\ [](C29_Progress)
    /\ [][C29_Iteration]_vars
    /\ (pc = "iout_loop" ~> pc = "emit")

\* Both loops are over: two Iout keys of which one had no Vout, and a Vout
\* key without Iout is left.
C29_Witness ==
    /\ pc = "emit"
    /\ Keys(given.iout) = {"P0", "P1"}
    /\ Keys(given.vout) = {"P1", "P2"}
    /\ Cardinality(Keys(given.iin)) = 3
    /\ Len(out_log) = 2
    /\ Len(in_log) = 3
    /\ iout_dict = <<>> /\ iin_dict = <<>>
    /\ Keys(vout_dict) = {"P2"}

(***************************************************************************)
(* C30: what the memory parser hands to normalise().                       *)
(***************************************************************************)
\* C30: for every row of memory tokens, one with total 0 included, the
\* memory parser returns the empty list or a list of exactly one Memory
\* sensor and never raises.
C30_MemoryParserNeverRaises ==
    fpc = "returned" =>
        /\ fret.kind = "return"
        /\ \/ fret.value = <<>>
           \/ Len(fret.value) = 1 /\ fret.value[1].name = "Memory"

\* A single row with total 0, used 1 and free 2: the parser raised.
C30_Witness ==
    /\ fpc = "returned"
    /\ Len(tokenized) = 1
    /\ tokenized[1] = [mem_total |-> Bound(0), mem_used |-> Bound(1),
                       mem_free |-> Bound(2)]
    /\ fret.kind = "raise"
    /\ fret.exc = "ZeroDivisionError"

\* A row whose total is not an integer gives the empty list.
C30_WitnessNotInteger ==
    /\ fpc = "returned"
    /\ Len(tokenized) = 1
    /\ ~tokenized[1].mem_total.bound
    /\ fret = Return(<<>>)

====
